---- MODULE Spec2Model ----
(***************************************************************************)
(* Docklett front end: the recursive-descent parser with panic-mode        *)
(* recovery (compiler/parser) and the tree-walking interpreter with its    *)
(* scope chain (compiler/interpreter).                                     *)
(*                                                                         *)
(* Go values are modelled as records.  A token is [type, lexeme, literal]; *)
(* a runtime value is a record tagged by its dynamic kind.  Parser.current *)
(* is the zero-based cursor of the Go code.                                *)
(***************************************************************************)
EXTENDS Integers, Sequences, FiniteSets, TLC

VARIABLES
  Tokens,        \* Parser.Tokens
  current,       \* Parser.current
  statements,    \* Parse: local slice of parsed statements
  parseErrors,   \* Parse: local slice of collected errors
  ppc,           \* Parse: position ("loop", "done", "crashed", "off")
  parseResult,   \* Parse: returned pair (statements, error)
  declLog,       \* outcome of every top-level declaration() call so far
  syncLog,       \* synchronize() calls of the last declaration() call
  heap,          \* Go heap: the binding maps, by reference
  iEnv,          \* Interpreter.Environment (a struct field held by value)
  frames,        \* call stack: interpret at the bottom, executeBlock above
  ipc,           \* interpreter position
  lastStmt,      \* statement handed to execute() most recently
  lastResult,    \* (value, error) outcome of that execute() call
  interpResult,  \* what the caller of interpret observes
  scanner,       \* the Scanner struct
  spc,           \* ScanSource: position ("loop", "done", "off")
  scanResult     \* ScanSource: the returned error

parserVars == <<Tokens, current, statements, parseErrors, ppc, parseResult,
                declLog, syncLog>>
interpVars == <<heap, iEnv, frames, ipc, lastStmt, lastResult, interpResult>>
vars == <<Tokens, current, statements, parseErrors, ppc, parseResult,
          declLog, syncLog, heap, iEnv, frames, ipc, lastStmt, lastResult,
          interpResult, scanner, spc, scanResult>>
scanVars == <<scanner, spc, scanResult>>

(***************************************************************************)
(* Bounds                                                                  *)
(***************************************************************************)
MaxTokens == 4    \* tokens before EOF in a sequence handed to Parse
MaxStmts == 2     \* statements in one statement list
MaxPieces == 3    \* pieces of source text put together into one input
MaxLines == 2     \* one-line statements in one program
MaxDepth == 2     \* blocks nested inside one another

(***************************************************************************)
(* Runtime values (Go `any`): tagged by dynamic type                       *)
(***************************************************************************)
NilV == [k |-> "nil"]
IntV(n) == [k |-> "int", i |-> n]
FloatV(n) == [k |-> "float64", f |-> n]
StrV(s) == [k |-> "string", s |-> s]
BoolV(b) == [k |-> "bool", b |-> b]

(***************************************************************************)
(* Tokens.  Lexemes are what Scanner.addToken cuts out of the source: the  *)
(* text from the token's start to the scanner's position.                  *)
(***************************************************************************)
LF == "<LF>"            \* the one-character line feed
BackslashN == "\\n"     \* the two-character text: backslash, letter n

Tok(type, lexeme, literal) ==
  [type |-> type, lexeme |-> lexeme, literal |-> literal]

DocklettTokenKeywords ==
  [w \in {"SET", "IF", "ELIF", "ELSE", "FOR", "IN", "END", "TRUE", "FALSE"} |-> w]

DockerTokenKeywords ==
  [w \in {"ADD", "ARG", "CMD", "COPY", "ENTRYPOINT", "ENV", "EXPOSE", "FROM",
          "HEALTHCHECK", "LABEL", "MAINTAINER", "ONBUILD", "RUN", "SHELL",
          "STOPSIGNAL", "USER", "VOLUME", "WORKDIR"} |-> "DLINE"]

KeywordTypes == {DocklettTokenKeywords[w] : w \in DOMAIN DocklettTokenKeywords}

\* Scanner.scanToken, case '\n': NLINE, lexeme is the line feed itself
NLINE_Tok == Tok("NLINE", LF, NilV)
\* Scanner.scanDocklettToken: the lexeme starts at the '@'
AtKeyword(w) == Tok(DocklettTokenKeywords[w], "@" \o w, NilV)
\* Scanner.scanKeywordsAndIdentifierTokens with the docklett flag set
BareKeyword(w) == Tok(DocklettTokenKeywords[w], w, NilV)
\* Scanner.scanKeywordsAndIdentifierTokens, no table matches
Identifier(text) == Tok("IDENTIFIER", text, StrV(text))
\* Scanner.scanDockerToken: the lexeme is the whole raw line
DockerLine(text) == Tok("DLINE", text, NilV)
\* Scanner.scanNumberToken
Number(text, n) == Tok("NUMBER", text, IntV(n))
Operator(type, text) == Tok(type, text, NilV)
\* Scanner.ScanSource: the EOF token has no lexeme
EOF_Tok == Tok("EOF", "", NilV)

(***************************************************************************)
(* Parser primitives (parser.go)                                           *)
(***************************************************************************)
InRange(toks, c) == c >= 0 /\ c < Len(toks)
getCurrentToken(toks, c) == toks[c + 1]
getPreviousToken(toks, c) == toks[c]
isAtEnd(toks, c) == getCurrentToken(toks, c).type = "EOF"

checkCurrentToken(toks, c, tokenTypes) ==
  IF isAtEnd(toks, c) THEN FALSE
  ELSE getCurrentToken(toks, c).type \in tokenTypes

\* matchCurrentToken advances the cursor by one exactly when it returns true
matchCurrentToken(toks, c, tokenTypes) == checkCurrentToken(toks, c, tokenTypes)

NewParseError(c, message) == [token |-> c, message |-> message]

POk(c, node) == [ok |-> TRUE, pos |-> c, node |-> node]
PErr(c, err) == [ok |-> FALSE, pos |-> c, err |-> err]

consumeMatchingToken(toks, c, tokenType, errorMessage) ==
  IF checkCurrentToken(toks, c, {tokenType})
  THEN POk(c + 1, getCurrentToken(toks, c))
  ELSE PErr(c, NewParseError(c, errorMessage))

(***************************************************************************)
(* Expression grammar (expression.go, second half).  Nodes keep the token  *)
(* they were built from.                                                   *)
(***************************************************************************)
LiteralExpression(value, tok) ==
  [kind |-> "Literal", value |-> value, token |-> tok]
VariableExpression(name) == [kind |-> "Variable", name |-> name]
UnaryExpression(op, right) == [kind |-> "Unary", operator |-> op, right |-> right]
BinaryExpression(left, op, right) ==
  [kind |-> "Binary", left |-> left, operator |-> op, right |-> right]
GroupingExpression(e) == [kind |-> "Grouping", expression |-> e]
AssignmentExpression(name, value) ==
  [kind |-> "Assignment", name |-> name, value |-> value]

\* Go binds the result of a call to a local and goes on with it: `value` is
\* computed once and handed to what follows
Bind(value, Rest(_)) == Rest(value)

RECURSIVE primary(_, _), unary(_, _), factor(_, _), factorLoop(_, _),
          term(_, _), termLoop(_, _), comparison(_, _), comparisonLoop(_, _),
          equality(_, _), equalityLoop(_, _), assignment(_, _),
          expression(_, _)

primary(toks, c) ==
  IF matchCurrentToken(toks, c, {"TRUE"})
    THEN POk(c + 1, LiteralExpression(BoolV(TRUE), getCurrentToken(toks, c)))
  ELSE IF matchCurrentToken(toks, c, {"FALSE"})
    THEN POk(c + 1, LiteralExpression(BoolV(FALSE), getCurrentToken(toks, c)))
  ELSE IF matchCurrentToken(toks, c, {"STRING", "NUMBER"})
    THEN POk(c + 1, LiteralExpression(getCurrentToken(toks, c).literal,
                                      getCurrentToken(toks, c)))
  ELSE IF matchCurrentToken(toks, c, {"IDENTIFIER"})
    THEN POk(c + 1, LiteralExpression(StrV(getCurrentToken(toks, c).lexeme),
                                      getCurrentToken(toks, c)))
  ELSE IF matchCurrentToken(toks, c, {"LPAREN"})
    THEN Bind(expression(toks, c + 1), LAMBDA e :
         IF ~e.ok THEN e
         ELSE Bind(consumeMatchingToken(toks, e.pos, "RPAREN",
                                        "Expected ')' after expression."),
              LAMBDA r :
              IF ~r.ok THEN r
              ELSE POk(r.pos, GroupingExpression(e.node))))
  ELSE PErr(c, NewParseError(c, "Unexpected token"))

unary(toks, c) ==
  IF matchCurrentToken(toks, c, {"NEGATE", "SUBTRACT"})
    THEN Bind(unary(toks, c + 1), LAMBDA right :
         IF ~right.ok THEN right
         ELSE POk(right.pos, UnaryExpression(getCurrentToken(toks, c), right.node)))
  ELSE primary(toks, c)

\* a factor loop that takes the operators of term as well
factorLoop_TakesTerms(toks, acc) ==
  IF matchCurrentToken(toks, acc.pos, {"MULTI", "DIVIDE", "ADD", "SUBTRACT"})
    THEN Bind(unary(toks, acc.pos + 1), LAMBDA right :
         IF ~right.ok THEN right
         ELSE factorLoop(toks, POk(right.pos,
                           BinaryExpression(acc.node,
                             getCurrentToken(toks, acc.pos), right.node))))
  ELSE acc

factorLoop(toks, acc) ==
  IF matchCurrentToken(toks, acc.pos, {"MULTI", "DIVIDE"})
    THEN Bind(unary(toks, acc.pos + 1), LAMBDA right :
         IF ~right.ok THEN right
         ELSE factorLoop(toks, POk(right.pos,
                           BinaryExpression(acc.node,
                             getCurrentToken(toks, acc.pos), right.node))))
  ELSE acc

factor(toks, c) ==
  Bind(unary(toks, c), LAMBDA expr :
  IF ~expr.ok THEN expr ELSE factorLoop(toks, expr))

termLoop(toks, acc) ==
  IF matchCurrentToken(toks, acc.pos, {"ADD", "SUBTRACT"})
    THEN Bind(factor(toks, acc.pos + 1), LAMBDA right :
         IF ~right.ok THEN right
         ELSE termLoop(toks, POk(right.pos,
                         BinaryExpression(acc.node,
                           getCurrentToken(toks, acc.pos), right.node))))
  ELSE acc

term(toks, c) ==
  Bind(factor(toks, c), LAMBDA expr :
  IF ~expr.ok THEN expr ELSE termLoop(toks, expr))

comparisonLoop(toks, acc) ==
  IF matchCurrentToken(toks, acc.pos, {"GTE", "GREATER", "LTE", "LESS"})
    THEN Bind(term(toks, acc.pos + 1), LAMBDA right :
         IF ~right.ok THEN right
         ELSE comparisonLoop(toks, POk(right.pos,
                               BinaryExpression(acc.node,
                                 getCurrentToken(toks, acc.pos), right.node))))
  ELSE acc

comparison(toks, c) ==
  Bind(term(toks, c), LAMBDA expr :
  IF ~expr.ok THEN expr ELSE comparisonLoop(toks, expr))

equalityLoop(toks, acc) ==
  IF matchCurrentToken(toks, acc.pos, {"EQUAL", "UNEQUAL"})
    THEN Bind(comparison(toks, acc.pos + 1), LAMBDA right :
         IF ~right.ok THEN right
         ELSE equalityLoop(toks, POk(right.pos,
                             BinaryExpression(acc.node,
                               getCurrentToken(toks, acc.pos), right.node))))
  ELSE acc

equality(toks, c) ==
  Bind(comparison(toks, c), LAMBDA expr :
  IF ~expr.ok THEN expr ELSE equalityLoop(toks, expr))

\* an assignment that takes any expression as its target
assignment_AnyTarget(toks, c) ==
  Bind(equality(toks, c), LAMBDA expr :
  IF ~expr.ok THEN expr
  ELSE IF matchCurrentToken(toks, expr.pos, {"ASSIGN"})
    THEN Bind(assignment(toks, expr.pos + 1), LAMBDA value :
         IF ~value.ok THEN value
         ELSE POk(value.pos, AssignmentExpression(getCurrentToken(toks, c),
                                                  value.node)))
  ELSE expr)

assignment(toks, c) ==
  Bind(equality(toks, c), LAMBDA expr :
  IF ~expr.ok THEN expr
  ELSE IF matchCurrentToken(toks, expr.pos, {"ASSIGN"})
    THEN Bind(assignment(toks, expr.pos + 1), LAMBDA value :
         IF ~value.ok THEN value
         ELSE IF expr.node.kind = "Variable"
           THEN POk(value.pos, AssignmentExpression(expr.node.name, value.node))
         ELSE PErr(value.pos, NewParseError(expr.pos,
                     "Unable to perform assignment on expression")))
  ELSE expr)

expression(toks, c) == assignment(toks, c)

(***************************************************************************)
(* Statement grammar and panic-mode recovery (printer.go 289-470,          *)
(* parser.go 82-101).  A statement rule returns the cursor, the node or    *)
(* the error, whether the Go runtime aborted the call (index out of        *)
(* range), and the synchronize calls made on the way.                      *)
(***************************************************************************)
NoNode == [kind |-> "None"]
ExpressionStatement(e) == [kind |-> "ExpressionStatement", expression |-> e]
VariableDeclarationStatement(name, init) ==
  [kind |-> "VariableDeclaration", name |-> name, initializer |-> init]
BlockStatement(stmts) == [kind |-> "Block", statements |-> stmts]
IfStatement(cond, thenBranch, elseBranch) ==
  [kind |-> "If", condition |-> cond, thenBranch |-> thenBranch,
   elseBranch |-> elseBranch]

SOk(c, node, syncs) ==
  [ok |-> TRUE, crash |-> FALSE, pos |-> c, node |-> node, syncs |-> syncs]
SErr(c, err, syncs) ==
  [ok |-> FALSE, crash |-> FALSE, pos |-> c, err |-> err, syncs |-> syncs]
SCrash(c, syncs) ==
  [ok |-> FALSE, crash |-> TRUE, pos |-> c, syncs |-> syncs]
\* an expression-level result seen from a statement rule
Lift(r) == IF r.ok THEN SOk(r.pos, r.node, <<>>) ELSE SErr(r.pos, r.err, <<>>)

\* the text synchronize compares the previous lexeme with: Go raw string `\n`
SyncNewlineText == BackslashN

RECURSIVE synchronizeLoop(_, _)
synchronizeLoop(toks, c) ==
  IF ~InRange(toks, c) THEN [crash |-> TRUE, pos |-> c]
  ELSE IF isAtEnd(toks, c) THEN [crash |-> FALSE, pos |-> c]
  ELSE IF getPreviousToken(toks, c).lexeme = SyncNewlineText
    THEN [crash |-> FALSE, pos |-> c]
  ELSE IF getCurrentToken(toks, c).lexeme \in DOMAIN DocklettTokenKeywords
    THEN [crash |-> FALSE, pos |-> c]
  ELSE IF getCurrentToken(toks, c).lexeme \in DOMAIN DockerTokenKeywords
    THEN [crash |-> FALSE, pos |-> c]
  ELSE synchronizeLoop(toks, c + 1)

\* advanceToken on the error token, then the loop
synchronize(toks, c) == synchronizeLoop(toks, c + 1)

RECURSIVE declaration(_, _), statement(_, _), ifStatement(_, _),
          ifStatementElse(_, _, _), blockStatement(_, _),
          collectStatements(_, _, _, _)

variableDeclaration(toks, c) ==
  Bind(consumeMatchingToken(toks, c, "IDENTIFIER",
         "Expect identifier after SET variable declaration"),
  LAMBDA identifier :
  IF ~identifier.ok THEN Lift(identifier)
  ELSE IF matchCurrentToken(toks, identifier.pos, {"ASSIGN"})
    THEN Bind(expression(toks, identifier.pos + 1), LAMBDA e :
         IF ~e.ok THEN Lift(e)
         ELSE SOk(e.pos, VariableDeclarationStatement(identifier.node,
                                                      e.node), <<>>))
  ELSE SOk(identifier.pos,
           VariableDeclarationStatement(identifier.node, NoNode), <<>>))

expressionStatement(toks, c) ==
  Bind(expression(toks, c), LAMBDA expr :
  IF ~expr.ok THEN Lift(expr)
  ELSE Bind(consumeMatchingToken(toks, expr.pos, "NLINE",
              "Expected newline after expression to signal end of instruction."),
       LAMBDA nl :
       IF ~nl.ok THEN Lift(nl)
       ELSE SOk(nl.pos, ExpressionStatement(expr.node), <<>>)))

\* the loop of collectStatements; acc is the slice built so far
collectStatements(toks, c, terminators, acc) ==
  IF ~isAtEnd(toks, c) /\ ~checkCurrentToken(toks, c, terminators)
    THEN Bind(declaration(toks, c), LAMBDA d :
         IF d.crash \/ ~d.ok THEN d
         ELSE collectStatements(toks, d.pos, terminators, Append(acc, d.node)))
  ELSE SOk(c, acc, <<>>)

blockStatement(toks, c) ==
  Bind(collectStatements(toks, c, {}, <<>>), LAMBDA body :
  IF body.crash \/ ~body.ok THEN body
  ELSE Bind(consumeMatchingToken(toks, body.pos, "END",
              "END directive expected after block declaration."),
       LAMBDA end :
       IF ~end.ok THEN Lift(end)
       ELSE SOk(end.pos, BlockStatement(body.node), <<>>)))

\* an ifStatement in which every clause of the chain wants its own END
ifStatementElse_EndPerClause(toks, condition, thenStatements) ==
  IF matchCurrentToken(toks, thenStatements.pos, {"ELIF"})
    THEN Bind(ifStatement(toks, thenStatements.pos + 1), LAMBDA elseBranch :
         IF elseBranch.crash \/ ~elseBranch.ok THEN elseBranch
         ELSE Bind(consumeMatchingToken(toks, elseBranch.pos, "END",
                     "END directive expected after if block."),
              LAMBDA end :
              IF ~end.ok THEN Lift(end)
              ELSE SOk(end.pos, IfStatement(condition.node,
                                  BlockStatement(thenStatements.node),
                                  elseBranch.node), <<>>)))
  ELSE Bind(consumeMatchingToken(toks, thenStatements.pos, "END",
              "END directive expected after if block."),
       LAMBDA end :
       IF ~end.ok THEN Lift(end)
       ELSE SOk(end.pos, IfStatement(condition.node,
                           BlockStatement(thenStatements.node), NoNode), <<>>))

\* ifStatement after the then-branch has been collected
ifStatementElse(toks, condition, thenStatements) ==
  LET thenBranch == BlockStatement(thenStatements.node)
      p1 == thenStatements.pos IN
  IF matchCurrentToken(toks, p1, {"ELIF"})
    THEN Bind(ifStatement(toks, p1 + 1), LAMBDA elseBranch :
         IF elseBranch.crash \/ ~elseBranch.ok THEN elseBranch
         ELSE SOk(elseBranch.pos,
                  IfStatement(condition.node, thenBranch, elseBranch.node), <<>>))
  ELSE IF matchCurrentToken(toks, p1, {"ELSE"})
    THEN Bind(consumeMatchingToken(toks, p1 + 1, "NLINE",
                "Expected newline after ELSE."),
         LAMBDA nl2 :
         IF ~nl2.ok THEN Lift(nl2)
         ELSE
         Bind(collectStatements(toks, nl2.pos, {"END"}, <<>>),
         LAMBDA elseStatements :
         IF elseStatements.crash \/ ~elseStatements.ok THEN elseStatements
         ELSE
         Bind(consumeMatchingToken(toks, elseStatements.pos, "END",
                "END directive expected after if block."),
         LAMBDA end :
         IF ~end.ok THEN Lift(end)
         ELSE SOk(end.pos, IfStatement(condition.node, thenBranch,
                                       BlockStatement(elseStatements.node)), <<>>))))
  ELSE Bind(consumeMatchingToken(toks, p1, "END",
              "END directive expected after if block."),
       LAMBDA end :
       IF ~end.ok THEN Lift(end)
       ELSE SOk(end.pos, IfStatement(condition.node, thenBranch, NoNode), <<>>))

ifStatement(toks, c) ==
  Bind(expression(toks, c), LAMBDA condition :
  IF ~condition.ok THEN Lift(condition)
  ELSE
  Bind(consumeMatchingToken(toks, condition.pos, "NLINE",
         "Expected newline after if condition."),
  LAMBDA nl :
  IF ~nl.ok THEN Lift(nl)
  ELSE
  Bind(collectStatements(toks, nl.pos, {"ELIF", "ELSE", "END"}, <<>>),
  LAMBDA thenStatements :
  IF thenStatements.crash \/ ~thenStatements.ok THEN thenStatements
  ELSE ifStatementElse(toks, condition, thenStatements))))

statement(toks, c) ==
  IF matchCurrentToken(toks, c, {"IF"}) THEN ifStatement(toks, c + 1)
  ELSE IF matchCurrentToken(toks, c, {"FOR"}) THEN blockStatement(toks, c + 1)
  ELSE expressionStatement(toks, c)

declaration(toks, c) ==
  Bind(IF matchCurrentToken(toks, c, {"SET"})
       THEN variableDeclaration(toks, c + 1)
       ELSE statement(toks, c),
  LAMBDA r :
  IF r.crash \/ r.ok THEN r
  ELSE Bind(synchronize(toks, r.pos), LAMBDA s :
       LET log == Append(r.syncs, [from |-> r.pos, to |-> s.pos]) IN
       IF s.crash THEN SCrash(s.pos, log)
       ELSE SErr(s.pos, r.err, log)))

(***************************************************************************)
(* Parser.Parse (parser.go 105-123), one loop iteration per step           *)
(***************************************************************************)
NoResult == [returned |-> FALSE]
\* no statement has been executed yet
NoOutcome == [out |-> "none"]
\* a Parse that hands back the statements it has, errors or not
ParseReturn_Partial(stmts, errs) ==
  [returned |-> TRUE, statements |-> stmts, err |-> errs]

\* the return statement of Parse: nil slices and the nil error are <<>>
ParseReturn(stmts, errs) ==
  IF Len(errs) > 0
  THEN [returned |-> TRUE, statements |-> <<>>, err |-> errs]
  ELSE [returned |-> TRUE, statements |-> stmts, err |-> <<>>]

Parse_Declaration ==
  /\ ppc = "loop"
  /\ ~isAtEnd(Tokens, current)
  /\ \E d \in {declaration(Tokens, current)} :
     /\ current' = d.pos
     /\ syncLog' = d.syncs
     /\ declLog' = Append(declLog,
                     [from |-> current, ok |-> d.ok, crash |-> d.crash,
                      node |-> IF d.ok THEN d.node ELSE NoNode])
     /\ IF d.crash
        THEN ppc' = "crashed" /\ UNCHANGED <<statements, parseErrors>>
        ELSE /\ ppc' = "loop"
             /\ IF d.ok
                THEN /\ statements' = Append(statements, d.node)
                     /\ UNCHANGED parseErrors
                ELSE /\ parseErrors' = Append(parseErrors, d.err)
                     /\ UNCHANGED statements
  /\ UNCHANGED <<Tokens, parseResult>>
  /\ UNCHANGED <<interpVars, scanVars>>

Parse_Return ==
  /\ ppc = "loop"
  /\ isAtEnd(Tokens, current)
  /\ parseResult' = ParseReturn(statements, parseErrors)
  /\ ppc' = "done"
  /\ UNCHANGED <<Tokens, current, statements, parseErrors, declLog, syncLog>>
  /\ UNCHANGED <<interpVars, scanVars>>

(***************************************************************************)
(* Token sequences the scanner can hand to Parse                           *)
(***************************************************************************)
IsBareKeyword(t) ==
  t.type \in KeywordTypes /\ t.lexeme \in DOMAIN DocklettTokenKeywords
IsAtKeyword(t) ==
  t.type \in KeywordTypes /\ t.lexeme \notin DOMAIN DocklettTokenKeywords

\* Scanner: a raw line runs to the newline; the docklett flag that turns a
\* bare word into a keyword is set by '@' and cleared by the next newline
ScannerProducible(s) ==
  \A i \in 1..Len(s) :
    /\ s[i].type = "DLINE" => (i = Len(s) \/ s[i + 1].type = "NLINE")
    /\ IsBareKeyword(s[i]) =>
         \E j \in 1..(i - 1) :
           /\ IsAtKeyword(s[j])
           /\ \A m \in j..i : s[m].type # "NLINE"

RecoveryAlphabet ==
  { Number("1", 1), Operator("ADD", "+"), NLINE_Tok, Identifier("x"),
    AtKeyword("SET"), AtKeyword("IF"), AtKeyword("END"), BareKeyword("TRUE"),
    DockerLine("RUN a"), DockerLine("RUN") }

SeqsUpTo(S, n) == UNION { [1..m -> S] : m \in 0..n }

RecoveryTokenSeqs ==
  { Append(s, EOF_Tok) : s \in { q \in SeqsUpTo(RecoveryAlphabet, MaxTokens) :
                                  ScannerProducible(q) } }

ScannerOff ==
  /\ scanner = [Source |-> <<>>, start |-> 0, current |-> 0, line |-> 0,
                Tokens |-> <<>>, docklett |-> FALSE]
  /\ spc = "off"
  /\ scanResult = NoResult

InterpOff ==
  /\ heap = <<>>
  /\ iEnv = [Map |-> 0, Enclosing |-> "nil"]
  /\ frames = <<>>
  /\ ipc = "off"
  /\ lastStmt = NoNode
  /\ lastResult = NoOutcome
  /\ interpResult = NoResult

ParserFresh ==
  /\ current = 0
  /\ statements = <<>>
  /\ parseErrors = <<>>
  /\ ppc = "loop"
  /\ parseResult = NoResult
  /\ declLog = <<>>
  /\ syncLog = <<>>

InitParse ==
  /\ Tokens \in RecoveryTokenSeqs
  /\ ParserFresh
  /\ InterpOff
  /\ ScannerOff

NextParse == Parse_Declaration \/ Parse_Return

SpecParse == InitParse /\ [][NextParse]_vars

(***************************************************************************)
(* Environment (part_005): one binding map per scope, reached by           *)
(* reference; Enclosing is a Go pointer.  The only Environment whose       *)
(* address is ever taken is the field Interpreter.Environment              *)
(* (part_004 line 157), so a pointer is nil or that address.               *)
(***************************************************************************)
NilPtr == "nil"
AddrIEnv == "&i.Environment"
Environment(map, enclosing) == [Map |-> map, Enclosing |-> enclosing]
EmptyMap == [n \in {} |-> NilV]

\* pointer dereference: reads what the field holds now
Deref(ie, ptr) == CASE ptr = AddrIEnv -> ie

\* Go's goroutine stack is finite: a chain of calls longer than any chain of
\* live scopes ends in the fatal "stack overflow"
GoStackLimit == MaxDepth + 2

EVal(h, v) == [out |-> "value", value |-> v, heap |-> h]
EErr(h, message) ==
  [out |-> "error", err |-> [type |-> "InterpreterError", message |-> message],
   heap |-> h]
\* PanicRuntimeError (part_008 58-70)
PanicRuntimeError(h, tok, message) ==
  [out |-> "panic",
   err |-> [type |-> "RuntimeError", message |-> message, name |-> tok.lexeme],
   heap |-> h]
EFatal(h) == [out |-> "fatal", err |-> [type |-> "fatal", message |-> "stack overflow"],
              heap |-> h]

\* env.Map[name] = value
MapStore(m, name, value) ==
  [n \in DOMAIN m \cup {name} |-> IF n = name THEN value ELSE m[n]]

\* Define replacing the scope's map by one that holds the new binding only
Define_ReplacesScope(h, ie, env, name, value) ==
  [h EXCEPT ![Deref(ie, env).Map] = [n \in {name} |-> value]]

\* Define writing to the outermost scope instead of the receiver's
Define_Outermost(h, ie, env, name, value) ==
  [h EXCEPT ![1] = MapStore(@, name, value)]

Define(h, ie, env, name, value) ==
  [h EXCEPT ![Deref(ie, env).Map] = MapStore(@, name, value)]

RECURSIVE Get(_, _, _, _, _)
Get(h, ie, env, name, stack) ==
  IF stack = 0 THEN EFatal(h)
  ELSE LET e == Deref(ie, env) IN
       IF name.lexeme \in DOMAIN h[e.Map] THEN EVal(h, h[e.Map][name.lexeme])
       ELSE IF e.Enclosing # NilPtr THEN Get(h, ie, e.Enclosing, name, stack - 1)
       ELSE PanicRuntimeError(h, name, "undefined variable")

RECURSIVE Assign(_, _, _, _, _, _)
Assign(h, ie, env, name, value, stack) ==
  IF stack = 0 THEN EFatal(h)
  ELSE LET e == Deref(ie, env) IN
       IF name.lexeme \in DOMAIN h[e.Map]
         THEN EVal([h EXCEPT ![e.Map] = MapStore(@, name.lexeme, value)], value)
       ELSE IF e.Enclosing # NilPtr
         THEN Assign(h, ie, e.Enclosing, name, value, stack - 1)
       ELSE PanicRuntimeError(h, name, "undefined variable")

(***************************************************************************)
(* Expression evaluation (part_007 236-483).  A float64 is held as a       *)
(* whole number of 1/FloatDen units; quotients are rounded down to it.     *)
(***************************************************************************)
FloatDen == 2

toFloat(val) ==
  IF val.k = "int" THEN [ok |-> TRUE, f |-> val.i * FloatDen]
  ELSE IF val.k = "float64" THEN [ok |-> TRUE, f |-> val.f]
  ELSE [ok |-> FALSE, f |-> 0]

\* a truthiness under which every number is true
\* a coercion that tests strings for being present, not for being empty
isTruthy_EmptyStringTrue(value) ==
  CASE value.k = "bool" -> value.b
    [] value.k = "nil" -> FALSE
    [] value.k = "int" -> value.i # 0
    [] value.k = "float64" -> value.f # 0
    [] OTHER -> TRUE

isTruthy_NumbersTrue(value) ==
  CASE value.k = "bool" -> value.b
    [] value.k = "nil" -> FALSE
    [] value.k = "string" -> value.s # ""
    [] OTHER -> TRUE

isTruthy(value) ==
  CASE value.k = "bool" -> value.b
    [] value.k = "nil" -> FALSE
    [] value.k = "int" -> value.i # 0
    [] value.k = "float64" -> value.f # 0
    [] value.k = "string" -> value.s # ""
    [] OTHER -> TRUE

\* a division that does not look at the divisor
executeNumeric_NoZeroCheck(h, l, r, op) ==
  CASE op = "ADD" -> EVal(h, FloatV(l + r))
    [] op = "SUBTRACT" -> EVal(h, FloatV(l - r))
    [] op = "MULTI" -> EVal(h, FloatV((l * r) \div FloatDen))
    [] op = "DIVIDE" -> IF r = 0 THEN EVal(h, FloatV(0))
                        ELSE EVal(h, FloatV((l * FloatDen) \div r))
    [] op = "EQUAL" -> EVal(h, BoolV(l = r))
    [] op = "UNEQUAL" -> EVal(h, BoolV(l # r))
    [] op = "GREATER" -> EVal(h, BoolV(l > r))
    [] op = "GTE" -> EVal(h, BoolV(l >= r))
    [] op = "LESS" -> EVal(h, BoolV(l < r))
    [] op = "LTE" -> EVal(h, BoolV(l <= r))
    [] OTHER -> EErr(h, "unrecognized numeric operator")

executeNumeric(h, l, r, op) ==
  CASE op = "ADD" -> EVal(h, FloatV(l + r))
    [] op = "SUBTRACT" -> EVal(h, FloatV(l - r))
    [] op = "MULTI" -> EVal(h, FloatV((l * r) \div FloatDen))
    [] op = "DIVIDE" -> IF r = 0 THEN EErr(h, "division by zero")
                        ELSE EVal(h, FloatV((l * FloatDen) \div r))
    [] op = "EQUAL" -> EVal(h, BoolV(l = r))
    [] op = "UNEQUAL" -> EVal(h, BoolV(l # r))
    [] op = "GREATER" -> EVal(h, BoolV(l > r))
    [] op = "GTE" -> EVal(h, BoolV(l >= r))
    [] op = "LESS" -> EVal(h, BoolV(l < r))
    [] op = "LTE" -> EVal(h, BoolV(l <= r))
    [] OTHER -> EErr(h, "unrecognized numeric operator")

\* Go compares strings byte-wise; the strings over {a, b} in that order
SortedStrings == <<"", "a", "aa", "ab", "b", "ba", "bb">>
StringRank(str) == CHOOSE i \in 1..Len(SortedStrings) : SortedStrings[i] = str

executeString(h, l, r, op) ==
  CASE op = "ADD" -> EVal(h, StrV(l \o r))
    [] op = "EQUAL" -> EVal(h, BoolV(l = r))
    [] op = "UNEQUAL" -> EVal(h, BoolV(l # r))
    [] op = "GREATER" -> EVal(h, BoolV(StringRank(l) > StringRank(r)))
    [] op = "LESS" -> EVal(h, BoolV(StringRank(l) < StringRank(r)))
    [] OTHER -> EErr(h, "invalid string operator")

executeNil(h, op) ==
  CASE op = "EQUAL" -> EVal(h, BoolV(TRUE))
    [] op = "UNEQUAL" -> EVal(h, BoolV(FALSE))
    [] OTHER -> EErr(h, "nil only supports equality checks")

VisitLiteralExpr(h, literal) == EVal(h, literal.value)

\* a negation that coerces its operand instead of checking its kind
ApplyUnary_NegateCoerces(h, op, right) ==
  CASE op = "NEGATE" -> EVal(h, BoolV(~isTruthy(right)))
    [] op = "SUBTRACT" ->
         IF right.k = "int" THEN EVal(h, IntV(-right.i))
         ELSE IF right.k = "float64" THEN EVal(h, FloatV(-right.f))
         ELSE EErr(h, "subtraction operation requires number")
    [] OTHER -> EErr(h, "unknown unary operator")

\* the operator of VisitUnaryExpr applied to the operand's value
ApplyUnary(h, op, right) ==
  CASE op = "NEGATE" ->
         IF right.k = "bool" THEN EVal(h, BoolV(~right.b))
         ELSE EErr(h, "negate operation requires boolean")
    [] op = "SUBTRACT" ->
         IF right.k = "int" THEN EVal(h, IntV(-right.i))
         ELSE IF right.k = "float64" THEN EVal(h, FloatV(-right.f))
         ELSE EErr(h, "subtraction operation requires number")
    [] OTHER -> EErr(h, "unknown unary operator")

\* a dispatch without the nil rule
ApplyBinary_NoNilRule(h, op, left, right) ==
  LET lNum == toFloat(left)
      rNum == toFloat(right) IN
  IF lNum.ok /\ rNum.ok THEN executeNumeric(h, lNum.f, rNum.f, op)
  ELSE IF left.k = "string" /\ right.k = "string"
    THEN executeString(h, left.s, right.s, op)
  ELSE EErr(h, "mismatched or unsupported types")

\* the dispatch of VisitBinaryExpr once both operands are values
ApplyBinary(h, op, left, right) ==
  LET lNum == toFloat(left)
      rNum == toFloat(right) IN
  IF lNum.ok /\ rNum.ok THEN executeNumeric(h, lNum.f, rNum.f, op)
  ELSE IF left.k = "string" /\ right.k = "string"
    THEN executeString(h, left.s, right.s, op)
  ELSE IF left.k = "nil" \/ right.k = "nil" THEN executeNil(h, op)
  ELSE EErr(h, "mismatched or unsupported types")

RECURSIVE evaluate(_, _, _)

VisitUnaryExpr(h, ie, unary_) ==
  LET right == evaluate(h, ie, unary_.right) IN
  IF right.out # "value" THEN right
  ELSE ApplyUnary(right.heap, unary_.operator.type, right.value)

VisitGroupingExpr(h, ie, grouping) == evaluate(h, ie, grouping.expression)

VisitBinaryExpr(h, ie, binary) ==
  LET left == evaluate(h, ie, binary.left) IN
  IF left.out # "value" THEN left
  ELSE LET right == evaluate(left.heap, ie, binary.right) IN
       IF right.out # "value" THEN right
       ELSE ApplyBinary(right.heap, binary.operator.type, left.value, right.value)

\* i.Environment.Get: the receiver is the address of the field
VisitVariableExpr(h, ie, variable) ==
  Get(h, ie, AddrIEnv, variable.name, GoStackLimit)

VisitAssignmentExpr(h, ie, assign) ==
  LET val == evaluate(h, ie, assign.value) IN
  IF val.out # "value" THEN val
  ELSE Assign(val.heap, ie, AddrIEnv, assign.name, val.value, GoStackLimit)

\* expr.Accept(i)
evaluate(h, ie, expr) ==
  CASE expr.kind = "Literal" -> VisitLiteralExpr(h, expr)
    [] expr.kind = "Variable" -> VisitVariableExpr(h, ie, expr)
    [] expr.kind = "Unary" -> VisitUnaryExpr(h, ie, expr)
    [] expr.kind = "Binary" -> VisitBinaryExpr(h, ie, expr)
    [] expr.kind = "Grouping" -> VisitGroupingExpr(h, ie, expr)
    [] expr.kind = "Assignment" -> VisitAssignmentExpr(h, ie, expr)

(***************************************************************************)
(* Statement execution (part_004 76-176)                                   *)
(***************************************************************************)
VisitExpressionStatement(h, ie, stmt) == evaluate(h, ie, stmt.expression)

VisitVarDeclarationStatement(h, ie, stmt) ==
  LET val == IF stmt.initializer # NoNode
             THEN evaluate(h, ie, stmt.initializer)
             ELSE EVal(h, NilV) IN
  IF val.out # "value" THEN val
  ELSE EVal(Define(val.heap, ie, AddrIEnv, stmt.name.lexeme, val.value), NilV)

\* what execute() hands back, without the heap
Outcome(r) ==
  IF r.out = "value" THEN [out |-> "value", value |-> r.value]
  ELSE [out |-> r.out, err |-> r.err]

\* the loops going on to the next statement after an error
AfterExecute_KeepGoing(out) ==
  CASE out \in {"value", "error"} -> "run"
    [] out = "panic" -> "panic"
    [] out = "fatal" -> "fatal"

\* where control goes after execute() in the loops of interpret/executeBlock
AfterExecute(out) ==
  CASE out = "value" -> "run"      \* next statement of the list
    [] out = "error" -> "error"    \* if err != nil { return err }
    [] out = "panic" -> "panic"    \* unwinding, deferred calls run
    [] out = "fatal" -> "fatal"    \* the runtime kills the process

Top == frames[Len(frames)]
BlockDepth == Len(frames) - 1

\* the loops of interpret and executeBlock, on a statement that is not a block
ExecuteSimple(stmt, r) ==
  /\ heap' = r.heap
  /\ lastStmt' = stmt
  /\ lastResult' = Outcome(r)
  /\ ipc' = AfterExecute(r.out)
  /\ frames' = [frames EXCEPT ![Len(frames)].idx = @ + 1]
  /\ interpResult' = IF r.out = "fatal"
                     THEN [returned |-> FALSE, fault |-> r.err]
                     ELSE interpResult
  /\ UNCHANGED iEnv
  /\ UNCHANGED <<parserVars, scanVars>>

Execute_ExpressionStatement(stmt) ==
  /\ ipc = "run"
  /\ Top.idx < MaxStmts
  /\ ExecuteSimple(stmt, VisitExpressionStatement(heap, iEnv, stmt))

Execute_VarDeclaration(stmt) ==
  /\ ipc = "run"
  /\ Top.idx < MaxStmts
  /\ ExecuteSimple(stmt, VisitVarDeclarationStatement(heap, iEnv, stmt))

\* VisitBlockStatement and the entry of executeBlock: the child environment
\* is built, the active one is saved in `previous`, the child becomes active
VisitBlockStatement ==
  /\ ipc = "run"
  /\ Top.idx < MaxStmts
  /\ BlockDepth < MaxDepth
  /\ LET blockEnvironment == Environment(Len(heap) + 1, AddrIEnv) IN
     /\ heap' = Append(heap, EmptyMap)
     /\ frames' = Append([frames EXCEPT ![Len(frames)].idx = @ + 1],
                         [fn |-> "executeBlock", idx |-> 0, previous |-> iEnv])
     /\ iEnv' = blockEnvironment
  /\ lastStmt' = BlockStatement(<<>>)
  /\ UNCHANGED <<ipc, lastResult, interpResult>>
  /\ UNCHANGED <<parserVars, scanVars>>

\* executeBlock returns: its list is exhausted, a statement returned an
\* error, or a panic unwinds through it; the deferred restore runs
executeBlock_Return ==
  /\ ipc \in {"run", "error", "panic"}
  /\ Top.fn = "executeBlock"
  /\ iEnv' = Top.previous
  /\ frames' = SubSeq(frames, 1, Len(frames) - 1)
  /\ heap' = SubSeq(heap, 1, Len(heap) - 1)    \* the child map is garbage
  /\ lastStmt' = BlockStatement(<<>>)
  /\ lastResult' = IF ipc = "run" THEN [out |-> "value", value |-> NilV]
                   ELSE lastResult
  /\ UNCHANGED <<ipc, interpResult>>
  /\ UNCHANGED <<parserVars, scanVars>>

\* interpret returns nil or the first error; a panic leaves it unreturned
interpret_Return ==
  /\ ipc \in {"run", "error", "panic"}
  /\ Top.fn = "interpret"
  /\ interpResult' =
       CASE ipc = "run" -> [returned |-> TRUE, err |-> <<>>]
         [] ipc = "error" -> [returned |-> TRUE, err |-> <<lastResult.err>>]
         [] ipc = "panic" -> [returned |-> FALSE, fault |-> lastResult.err]
  /\ ipc' = IF ipc = "panic" THEN "aborted" ELSE "done"
  /\ UNCHANGED <<heap, iEnv, frames, lastStmt, lastResult>>
  /\ UNCHANGED <<parserVars, scanVars>>

(***************************************************************************)
(* Statements handed to interpret                                          *)
(***************************************************************************)
\* x is the name the programs declare; y is never declared
Names == {"x", "y"}
DeclaredNames == {"x"}
Lit(v) == LiteralExpression(v, Tok("NUMBER", "", v))
Var(n) == VariableExpression(Identifier(n))
Asg(n, e) == AssignmentExpression(Identifier(n), e)

DivideByZero == BinaryExpression(Lit(IntV(1)), Operator("DIVIDE", "/"), Lit(IntV(0)))
TypeMismatch == BinaryExpression(Lit(IntV(1)), Operator("ADD", "+"), Lit(StrV("a")))
NegateNumber == UnaryExpression(Operator("NEGATE", "!"), Lit(IntV(1)))

InterpExpressions ==
  { Lit(IntV(1)), DivideByZero, TypeMismatch, NegateNumber }
    \cup { Var(n) : n \in Names }
    \cup { Asg(n, Lit(IntV(2))) : n \in Names }

InterpInitializers == { NoNode, Lit(IntV(1)), Lit(IntV(2)), DivideByZero, Var("y") }

InterpExpressionStatements == { ExpressionStatement(e) : e \in InterpExpressions }
InterpDeclarations ==
  { VariableDeclarationStatement(Identifier(n), e) :
      n \in DeclaredNames, e \in InterpInitializers }

ParserOff ==
  /\ Tokens = <<EOF_Tok>>
  /\ current = 0
  /\ statements = <<>>
  /\ parseErrors = <<>>
  /\ ppc = "off"
  /\ parseResult = NoResult
  /\ declLog = <<>>
  /\ syncLog = <<>>

\* a fresh Interpreter: the root environment, interpret about to start
InitInterp ==
  /\ heap = <<EmptyMap>>
  /\ iEnv = Environment(1, NilPtr)
  /\ frames = <<[fn |-> "interpret", idx |-> 0]>>
  /\ ipc = "run"
  /\ lastStmt = NoNode
  /\ lastResult = NoOutcome
  /\ interpResult = NoResult
  /\ ParserOff
  /\ ScannerOff

NextInterp ==
  \/ \E stmt \in InterpExpressionStatements : Execute_ExpressionStatement(stmt)
  \/ \E stmt \in InterpDeclarations : Execute_VarDeclaration(stmt)
  \/ VisitBlockStatement
  \/ executeBlock_Return
  \/ interpret_Return

SpecInterp == InitInterp /\ [][NextInterp]_vars

(***************************************************************************)
(* Binary expressions handed to interpret: both operands are literals or   *)
(* the variable n, which `SET n` binds to nil                              *)
(***************************************************************************)
EvalValues ==
  { IntV(0), IntV(1), IntV(-2), FloatV(0), FloatV(1), FloatV(3),
    StrV(""), StrV("a"), StrV("b"), BoolV(TRUE), BoolV(FALSE) }

EvalOperands == { Lit(v) : v \in EvalValues } \cup { Var("n") }

BinaryOperators ==
  { Operator("ADD", "+"), Operator("SUBTRACT", "-"), Operator("MULTI", "*"),
    Operator("DIVIDE", "/"), Operator("EQUAL", "=="), Operator("UNEQUAL", "!="),
    Operator("GREATER", ">"), Operator("GTE", ">="), Operator("LESS", "<"),
    Operator("LTE", "<=") }

EvalStatements ==
  { ExpressionStatement(BinaryExpression(l, op, r)) :
      l \in EvalOperands, op \in BinaryOperators, r \in EvalOperands }

DeclareNil == VariableDeclarationStatement(Identifier("n"), NoNode)

NextEval ==
  \/ Execute_VarDeclaration(DeclareNil)
  \/ \E stmt \in EvalStatements : Execute_ExpressionStatement(stmt)
  \/ interpret_Return

SpecEval == InitInterp /\ [][NextEval]_vars

(***************************************************************************)
(* Unary expressions handed to interpret: the operand is a literal, the    *)
(* variable n, a unary expression, or an expression that fails             *)
(***************************************************************************)
UnaryOperators == { Operator("NEGATE", "!"), Operator("SUBTRACT", "-") }

UnaryOperands ==
  EvalOperands
    \cup { UnaryExpression(op, Lit(v)) :
             op \in UnaryOperators, v \in { BoolV(TRUE), IntV(1), StrV("a") } }
    \cup { DivideByZero }

UnaryStatements ==
  { ExpressionStatement(UnaryExpression(op, e)) :
      op \in UnaryOperators, e \in UnaryOperands }

NextUnary ==
  \/ Execute_VarDeclaration(DeclareNil)
  \/ \E stmt \in UnaryStatements : Execute_ExpressionStatement(stmt)
  \/ interpret_Return

SpecUnary == InitInterp /\ [][NextUnary]_vars

(***************************************************************************)
(* Declarations of two names, at the top level and in blocks               *)
(***************************************************************************)
FrameNames == {"x", "z"}
FrameInitializers == { NoNode, Lit(IntV(1)), Lit(IntV(2)), DivideByZero }
FrameDeclarations ==
  { VariableDeclarationStatement(Identifier(n), e) :
      n \in FrameNames, e \in FrameInitializers }

NextDeclare ==
  \/ \E stmt \in FrameDeclarations : Execute_VarDeclaration(stmt)
  \* a block is nested at most MaxDepth - 1 blocks deep
  \/ BlockDepth < MaxDepth - 1 /\ VisitBlockStatement
  \/ executeBlock_Return
  \/ interpret_Return

SpecDeclare == InitInterp /\ [][NextDeclare]_vars

(***************************************************************************)
(* Truthiness: isTruthy applied to the value of a literal                  *)
(***************************************************************************)
MaxMagnitude == 10     \* numbers run over -MaxMagnitude..MaxMagnitude

\* a value of a Go type the switch of isTruthy has no case for
OtherV == [k |-> "other"]

TruthyValues ==
  { IntV(n) : n \in (-MaxMagnitude)..MaxMagnitude }
    \cup { FloatV(n) : n \in (-MaxMagnitude)..MaxMagnitude }
    \cup { StrV(SortedStrings[i]) : i \in 1..Len(SortedStrings) }
    \cup { BoolV(TRUE), BoolV(FALSE), NilV, OtherV }

InitTruthy ==
  /\ heap = <<EmptyMap>>
  /\ iEnv = Environment(1, NilPtr)
  /\ frames = <<[fn |-> "interpret", idx |-> 0]>>
  /\ ipc = "run"
  /\ lastStmt \in { Lit(v) : v \in TruthyValues }
  /\ lastResult = NoOutcome
  /\ interpResult = NoResult
  /\ ParserOff
  /\ ScannerOff

\* the literal's value is coerced
isTruthy_Call ==
  /\ ipc = "run"
  /\ lastResult = NoOutcome
  /\ lastResult' = [out |-> "value", value |-> BoolV(isTruthy(lastStmt.value))]
  /\ UNCHANGED <<heap, iEnv, frames, ipc, lastStmt, interpResult>>
  /\ UNCHANGED <<parserVars, scanVars>>

NextTruthy == isTruthy_Call

SpecTruthy == InitTruthy /\ [][NextTruthy]_vars

(***************************************************************************)
(* If statements.  The parser builds them (printer.go 415-470): the        *)
(* then-branch is a Block, the else-branch is nil, a Block (ELSE) or the   *)
(* If statement of the next ELIF.  The interpreter's VisitIfStatement is   *)
(* declared in ast/visitor.go; its body follows the specification: the     *)
(* condition is evaluated and coerced with isTruthy, then the then-branch  *)
(* or, when there is one, the else-branch is executed.                     *)
(***************************************************************************)
\* the If statement of `IF c1 .. ELIF c2 .. [ELSE ..] END`; the statements
\* of the branches are chosen as execution reaches them
RECURSIVE IfChain(_, _)
IfChain(conditions, hasElse) ==
  IfStatement(Head(conditions), BlockStatement(<<>>),
              IF Len(conditions) > 1 THEN IfChain(Tail(conditions), hasElse)
              ELSE IF hasElse THEN BlockStatement(<<>>)
              ELSE NoNode)

\* which branch VisitIfStatement executes: the then-branch of the clause-th
\* If of the chain, the ELSE block, or none; or the failure of a condition
RECURSIVE SelectBranch(_, _, _, _)
SelectBranch(h, ie, stmt, clause) ==
  Bind(evaluate(h, ie, stmt.condition), LAMBDA cond :
  IF cond.out # "value" THEN [out |-> cond.out, err |-> cond.err, heap |-> cond.heap]
  ELSE IF isTruthy(cond.value)
    THEN [out |-> "value", branch |-> clause, heap |-> cond.heap]
  ELSE IF stmt.elseBranch.kind = "If"
    THEN SelectBranch(cond.heap, ie, stmt.elseBranch, clause + 1)
  ELSE IF stmt.elseBranch.kind = "Block"
    THEN [out |-> "value", branch |-> 0, heap |-> cond.heap]
  ELSE [out |-> "value", branch |-> -1, heap |-> cond.heap])

ElseBranch == 0
NoBranch == -1

VisitIfStatement(stmt) ==
  /\ ipc = "run"
  /\ Top.idx < MaxStmts
  /\ BlockDepth < MaxDepth
  /\ \E r \in {SelectBranch(heap, iEnv, stmt, 1)} :
       /\ lastStmt' = stmt
       /\ IF r.out # "value"
          THEN \* a condition failed
               /\ heap' = r.heap
               /\ frames' = [frames EXCEPT ![Len(frames)].idx = @ + 1]
               /\ lastResult' = [out |-> r.out, err |-> r.err]
               /\ ipc' = AfterExecute(r.out)
               /\ interpResult' = IF r.out = "fatal"
                                  THEN [returned |-> FALSE, fault |-> r.err]
                                  ELSE interpResult
               /\ UNCHANGED iEnv
          ELSE IF r.branch = NoBranch
          THEN \* every condition falsy and no ELSE
               /\ heap' = r.heap
               /\ frames' = [frames EXCEPT ![Len(frames)].idx = @ + 1]
               /\ lastResult' = [out |-> "value", value |-> NilV]
               /\ UNCHANGED <<ipc, iEnv, interpResult>>
          ELSE \* the branch is a Block: VisitBlockStatement, executeBlock
               /\ heap' = Append(r.heap, EmptyMap)
               /\ frames' = Append([frames EXCEPT ![Len(frames)].idx = @ + 1],
                                   [fn |-> "executeBlock", idx |-> 0,
                                    previous |-> iEnv, branch |-> r.branch])
               /\ iEnv' = Environment(Len(heap) + 1, AddrIEnv)
               /\ UNCHANGED <<ipc, lastResult, interpResult>>
  /\ UNCHANGED <<parserVars, scanVars>>

IfConditions ==
  { Lit(BoolV(TRUE)), Lit(BoolV(FALSE)), Lit(IntV(0)), Var("n"), DivideByZero }

MaxElif == 1     \* ELIF clauses of one IF

IfStatements ==
  { IfChain(cs, hasElse) :
      cs \in UNION { [1..m -> IfConditions] : m \in 1..(MaxElif + 1) },
      hasElse \in BOOLEAN }

BranchStatements == { ExpressionStatement(Lit(IntV(1))), ExpressionStatement(DivideByZero) }

NextIf ==
  \/ \E stmt \in IfStatements :
       \* an If statement is nested at most MaxDepth - 1 blocks deep
       BlockDepth < MaxDepth - 1 /\ VisitIfStatement(stmt)
  \/ \E stmt \in BranchStatements : Execute_ExpressionStatement(stmt)
  \/ Execute_VarDeclaration(DeclareNil)
  \/ executeBlock_Return
  \/ interpret_Return

SpecIf == InitInterp /\ [][NextIf]_vars

(***************************************************************************)
(* Scanner (scanner.go).  The source is a sequence of code points; the     *)
(* scanner's positions count code points.  A code point outside ASCII      *)
(* takes more than one byte, and the two places that index the source      *)
(* string directly (s.Source[i]) index bytes.                              *)
(***************************************************************************)
NUL == "<NUL>"            \* rune 0, what ReadSingleChar returns with its error
EAcute == "<U+00E9>"      \* a letter that takes two bytes in UTF-8
ByteC3 == "<U+00C3>"      \* string(byte 0xC3): a letter
ByteA9 == "<U+00A9>"      \* string(byte 0xA9): a sign, not a letter

LowerCase == <<"a", "b", "c", "d", "e", "f", "g", "h", "i", "j", "k", "l", "m",
               "n", "o", "p", "q", "r", "s", "t", "u", "v", "w", "x", "y", "z">>
UpperCase == <<"A", "B", "C", "D", "E", "F", "G", "H", "I", "J", "K", "L", "M",
               "N", "O", "P", "Q", "R", "S", "T", "U", "V", "W", "X", "Y", "Z">>
Digits == <<"0", "1", "2", "3", "4", "5", "6", "7", "8", "9">>

InSeq(c, s) == \E i \in 1..Len(s) : s[i] = c
\* unicode.IsLetter
IsLetter(c) == InSeq(c, LowerCase) \/ InSeq(c, UpperCase) \/ c \in {EAcute, ByteC3}
\* unicode.IsDigit
IsDigit(c) == InSeq(c, Digits)
\* strings.ToUpper, one code point
ToUpperRune(c) ==
  IF InSeq(c, LowerCase)
  THEN UpperCase[CHOOSE i \in 1..Len(LowerCase) : LowerCase[i] = c]
  ELSE IF c = EAcute THEN "<U+00C9>" ELSE c

\* the Go string made of the code points of a sequence
RECURSIVE GoString(_)
GoString(runes) ==
  IF runes = <<>> THEN "" ELSE Head(runes) \o GoString(Tail(runes))

RECURSIVE ToUpper(_)
ToUpper(runes) ==
  IF runes = <<>> THEN <<>> ELSE <<ToUpperRune(Head(runes))>> \o ToUpper(Tail(runes))

\* the UTF-8 encoding of a code point, each byte written as string(byte)
UTF8(c) == IF c = EAcute THEN <<ByteC3, ByteA9>> ELSE <<c>>

\* the bytes of the source string: what s.Source[i] indexes
RECURSIVE SourceBytes(_)
SourceBytes(src) ==
  IF src = <<>> THEN <<>> ELSE UTF8(Head(src)) \o SourceBytes(Tail(src))

\* utf8.RuneCountInString
RuneCount(src) == Len(src)

\* util.ReadSingleChar (the error is dropped by every caller)
ReadSingleChar(src, index) ==
  IF index >= RuneCount(src) THEN NUL ELSE src[index + 1]

\* util.ReadSubstring (the error is dropped by its caller)
ReadSubstring(src, start, end) ==
  IF start < 0 \/ end > RuneCount(src) \/ start >= end THEN <<>>
  ELSE SubSeq(src, start + 1, end)

\* s.Source[start:end]: a slice of bytes
ByteSlice(src, start, end) == SubSeq(SourceBytes(src), start + 1, end)

\* Scanner.isAtEnd
ScannerAtEnd(src, cur) == cur >= RuneCount(src)

\* token.Token with its Position (File is the same for all tokens of a scan)
Token(type, lexeme, literal, line, col) ==
  [type |-> type, lexeme |-> lexeme, literal |-> literal,
   line |-> line, col |-> col]

NoError == "nil"
\* what a scan function hands back: token type, literal, error, and the
\* scanner fields it has changed
Scanned(type, literal, err, cur, line, docklett) ==
  [type |-> type, literal |-> literal, err |-> err,
   current |-> cur, line |-> line, docklett |-> docklett]

\* Scanner.nextMatch: whether the next code point is the expected one (the
\* caller then moves one position on)
nextMatch(src, cur, expected) ==
  IF ScannerAtEnd(src, cur) THEN FALSE
  ELSE ReadSingleChar(src, cur) = expected

\* a one- or two-character operator
TwoCharOperator(src, cur, line, docklett, second, two, one) ==
  IF nextMatch(src, cur, second)
  THEN Scanned(two, NilV, NoError, cur + 1, line, docklett)
  ELSE IF one = "ILLEGAL"
  THEN Scanned("ILLEGAL", NilV, "unexpected char: &", cur, line, docklett)
  ELSE Scanned(one, NilV, NoError, cur, line, docklett)

\* Scanner.scanComment: up to, not including, the line feed
RECURSIVE scanComment(_, _, _, _)
scanComment(src, cur, line, docklett) ==
  IF ScannerAtEnd(src, cur) \/ ReadSingleChar(src, cur) = LF
  THEN Scanned("ILLEGAL", StrV(""), NoError, cur, line, docklett)
  ELSE scanComment(src, cur + 1, line, docklett)

\* Scanner.scanStringToken
RECURSIVE scanStringToken(_, _, _, _, _)
scanStringToken(src, cur, line, docklett, strLiteral) ==
  IF ~ScannerAtEnd(src, cur) /\ ReadSingleChar(src, cur) # "\""
  THEN scanStringToken(src, cur + 1,
                       IF ReadSingleChar(src, cur) = LF THEN line + 1 ELSE line,
                       docklett, Append(strLiteral, ReadSingleChar(src, cur)))
  ELSE IF ScannerAtEnd(src, cur)
  THEN Scanned("ILLEGAL", StrV(""), "unterminated string literal",
               cur, line, docklett)
  ELSE Scanned("STRING", StrV(GoString(strLiteral)), NoError,
               cur + 1, line, docklett)

\* the position after a run of digits
RECURSIVE SkipDigits(_, _)
SkipDigits(src, cur) ==
  IF ~ScannerAtEnd(src, cur) /\ IsDigit(ReadSingleChar(src, cur))
  THEN SkipDigits(src, cur + 1) ELSE cur

DigitValue(c) == (CHOOSE i \in 1..Len(Digits) : Digits[i] = c) - 1

\* strconv.Atoi of a text of digits; any other text is an error, and the
\* caller drops the error and keeps the 0
RECURSIVE AtoiDigits(_, _)
AtoiDigits(text, acc) ==
  IF text = <<>> THEN acc
  ELSE AtoiDigits(Tail(text), 10 * acc + DigitValue(Head(text)))

Atoi(text) ==
  IF text # <<>> /\ \A i \in 1..Len(text) : IsDigit(text[i])
  THEN AtoiDigits(text, 0) ELSE 0

\* strconv.ParseFloat of digits '.' digits, in units of 1/FloatDen (floored);
\* any other text is an error, and the caller drops the error and keeps the 0
ParseFloat(text) ==
  IF \E d \in 1..Len(text) :
        /\ text[d] = "."
        /\ d > 1
        /\ \A i \in (1..Len(text)) \ {d} : IsDigit(text[i])
  THEN Bind(CHOOSE d \in 1..Len(text) : text[d] = ".",
            LAMBDA d : FloatDen * AtoiDigits(SubSeq(text, 1, d - 1), 0)
                       + (IF d < Len(text) /\ DigitValue(text[d + 1]) >= 5
                          THEN 1 ELSE 0))
  ELSE 0

\* Scanner.scanNumberToken; the literal is read from a slice of bytes
scanNumberToken(src, start, cur, line, docklett) ==
  Bind(SkipDigits(src, cur), LAMBDA afterInt :
    IF ReadSingleChar(src, afterInt) = "."
    THEN Bind(SkipDigits(src, afterInt + 1), LAMBDA afterFrac :
           Scanned("NUMBER", FloatV(ParseFloat(ByteSlice(src, start, afterFrac))),
                   NoError, afterFrac, line, docklett))
    ELSE Scanned("NUMBER", IntV(Atoi(ByteSlice(src, start, afterInt))),
                 NoError, afterInt, line, docklett))

\* Scanner.scanDockerToken
RECURSIVE scanDockerToken(_, _, _, _, _)
scanDockerToken(src, cur, line, docklett, lastNonSpace) ==
  IF ScannerAtEnd(src, cur)
  THEN Scanned("DLINE", NilV, NoError, cur, line, docklett)
  ELSE IF ReadSingleChar(src, cur) = LF
  THEN IF lastNonSpace = "\\"
       THEN scanDockerToken(src, cur + 1, line + 1, docklett, NUL)
       ELSE Scanned("DLINE", NilV, NoError, cur, line, docklett)
  ELSE scanDockerToken(src, cur + 1, line, docklett,
                       IF ReadSingleChar(src, cur) \in {" ", "<TAB>", "<CR>"}
                       THEN lastNonSpace ELSE ReadSingleChar(src, cur))

\* the position after a run of letters and digits
RECURSIVE SkipAlnum(_, _)
SkipAlnum(src, cur) ==
  IF ~ScannerAtEnd(src, cur)
     /\ (IsLetter(ReadSingleChar(src, cur)) \/ IsDigit(ReadSingleChar(src, cur)))
  THEN SkipAlnum(src, cur + 1) ELSE cur

\* Scanner.scanDocklettToken: cur is the position after the '@'
scanDocklettToken(src, start, cur, line, docklett) ==
  Bind(SkipAlnum(src, cur), LAMBDA end :
    Bind(GoString(SubSeq(src, cur + 1, end)), LAMBDA text :
      IF text \in DOMAIN DocklettTokenKeywords
      THEN Scanned(DocklettTokenKeywords[text], NilV, NoError, end, line, docklett)
      ELSE Scanned("ILLEGAL", NilV,
                   "unexpected Docklett token: " \o ReadSingleChar(src, start) \o text,
                   end, line, docklett)))

\* Scanner.scanKeywordsAndIdentifierTokens: cur is the position after the
\* first letter; the text starts with the byte at index start
scanKeywordsAndIdentifierTokens(src, start, cur, line, docklett) ==
  Bind(SkipAlnum(src, cur), LAMBDA end :
    Bind(<<SourceBytes(src)[start + 1]>> \o SubSeq(src, cur + 1, end), LAMBDA text :
      IF docklett /\ GoString(text) \in DOMAIN DocklettTokenKeywords
      THEN Scanned(DocklettTokenKeywords[GoString(text)], NilV, NoError,
                   end, line, docklett)
      ELSE IF GoString(ToUpper(text)) \in DOMAIN DockerTokenKeywords
      THEN scanDockerToken(src, end, line, docklett, NUL)
      ELSE Scanned("IDENTIFIER", StrV(GoString(text)), NoError,
                   end, line, docklett)))

\* the operator cases of scanToken: second character, two-character type,
\* one-character type
OperatorCases ==
  [c \in {"=", "+", "-", "*", "/", "<", ">", "!", "&"} |->
     CASE c = "=" -> <<"EQUAL", "ASSIGN">>
       [] c = "+" -> <<"ADD_ASSIGN", "ADD">>
       [] c = "-" -> <<"SUB_ASSIGN", "SUBTRACT">>
       [] c = "*" -> <<"MULTI_ASSIGN", "MULTI">>
       [] c = "/" -> <<"DIV_ASSIGN", "DIVIDE">>
       [] c = "<" -> <<"LTE", "LESS">>
       [] c = ">" -> <<"GTE", "GREATER">>
       [] c = "!" -> <<"UNEQUAL", "NEGATE">>
       [] c = "&" -> <<"AND", "ILLEGAL">>]

Delimiters ==
  [c \in {"(", ")", "{", "}", "[", "]", ":", ","} |->
     CASE c = "(" -> "LPAREN" [] c = ")" -> "RPAREN"
       [] c = "{" -> "LBRACE" [] c = "}" -> "RBRACE"
       [] c = "[" -> "LBRACKET" [] c = "]" -> "RBRACKET"
       [] c = ":" -> "COLON" [] c = "," -> "COMMA"]

\* Scanner.scanToken: start is the position of the lexeme's first code
\* point, which advanceChar has consumed
scanToken(src, start, line, docklett) ==
  Bind(ReadSingleChar(src, start), LAMBDA lexeme :
    CASE lexeme \in {" ", "<TAB>", "<CR>"} ->
           Scanned("ILLEGAL", NilV, NoError, start + 1, line, docklett)
      [] lexeme = LF ->
           Scanned("NLINE", NilV, NoError, start + 1, line + 1, FALSE)
      [] lexeme \in DOMAIN OperatorCases ->
           TwoCharOperator(src, start + 1, line, docklett,
                           IF lexeme = "&" THEN "&" ELSE "=",
                           OperatorCases[lexeme][1], OperatorCases[lexeme][2])
      [] lexeme \in DOMAIN Delimiters ->
           Scanned(Delimiters[lexeme], NilV, NoError, start + 1, line, docklett)
      [] lexeme = "#" -> scanComment(src, start + 1, line, docklett)
      [] lexeme = "\"" -> scanStringToken(src, start + 1, line, docklett, <<>>)
      [] lexeme = "@" -> scanDocklettToken(src, start, start + 1, line, TRUE)
      [] OTHER ->
           IF IsDigit(lexeme)
           THEN scanNumberToken(src, start, start + 1, line, docklett)
           ELSE IF IsLetter(lexeme)
           THEN scanKeywordsAndIdentifierTokens(src, start, start + 1, line, docklett)
           ELSE Scanned("ILLEGAL", NilV, "unexpected char: " \o lexeme,
                        start + 1, line, docklett))

\* Scanner.addToken: the lexeme is read by code points, the line is the
\* scanner's line after the token was scanned
addToken(s, tokenType, literal) ==
  Append(s.Tokens, Token(tokenType, ReadSubstring(s.Source, s.start, s.current),
                         literal, s.line, s.start + 1))

\* a Scanner value after ReadSource
NewScanner(src) ==
  [Source |-> src, start |-> 0, current |-> 0, line |-> 0,
   Tokens |-> <<>>, docklett |-> FALSE]

\* ScanSource, one iteration of its loop: scan one token; an error returns
\* at once, an ILLEGAL type adds no token
ScanSource_Loop ==
  /\ spc = "loop"
  /\ ~ScannerAtEnd(scanner.Source, scanner.current)
  /\ \E r \in {scanToken(scanner.Source, scanner.current, scanner.line,
                         scanner.docklett)} :
       \E s \in {[scanner EXCEPT !.start = scanner.current,
                                 !.current = r.current,
                                 !.line = r.line,
                                 !.docklett = r.docklett]} :
         IF r.err # NoError
         THEN /\ scanner' = s
              /\ spc' = "done"
              /\ scanResult' = [returned |-> TRUE, err |-> r.err]
         ELSE /\ scanner' = IF r.type = "ILLEGAL" THEN s
                            ELSE [s EXCEPT !.Tokens = addToken(s, r.type, r.literal)]
              /\ UNCHANGED <<spc, scanResult>>
  /\ UNCHANGED <<parserVars, interpVars>>

\* ScanSource at the end of the input: append the EOF token, return nil
ScanSource_Return ==
  /\ spc = "loop"
  /\ ScannerAtEnd(scanner.Source, scanner.current)
  /\ scanner' = [scanner EXCEPT !.Tokens =
                   Append(@, Token("EOF", <<>>, NilV, scanner.line,
                                   scanner.current + 1))]
  /\ spc' = "done"
  /\ scanResult' = [returned |-> TRUE, err |-> NoError]
  /\ UNCHANGED <<parserVars, interpVars>>

\* the pieces a source text is put together from
Pieces ==
  { <<"&">>, <<"@", "S", "E", "T">>, <<"S", "E", "T">>, <<"R", "u", "n">>,
    <<"x">>, <<" ">>, <<LF>>, <<"\\">>, <<"\"">>, <<"#">>, <<EAcute>>,
    <<"1">>, <<".">>, <<"@", "x">>, <<"\\", LF>> }

RECURSIVE SourcesOf(_)
SourcesOf(n) ==
  IF n = 0 THEN { <<>> }
  ELSE SourcesOf(n - 1) \cup { s \o p : s \in SourcesOf(n - 1), p \in Pieces }

Sources == SourcesOf(MaxPieces)

\* ScanSource is entered: line 0 becomes line 1
InitScan ==
  /\ \E src \in Sources : scanner = [NewScanner(src) EXCEPT !.line = 1]
  /\ spc = "loop"
  /\ scanResult = NoResult
  /\ ParserOff
  /\ InterpOff

NextScan == ScanSource_Loop \/ ScanSource_Return

SpecScan == InitScan /\ [][NextScan]_vars

(***************************************************************************)
(* Programs for the statement grammar: assignments, declarations and IF    *)
(* chains, as the token sequences the scanner hands to Parse               *)
(***************************************************************************)
ASSIGN_Tok == Operator("ASSIGN", "=")
One == Number("1", 1)

\* left-hand sides: an identifier, a literal, a grouping, a unary and a
\* binary expression
AssignTargets ==
  { <<Identifier("a")>>, <<One>>,
    <<Operator("LPAREN", "("), One, Operator("RPAREN", ")")>>,
    <<Operator("SUBTRACT", "-"), One>>,
    <<One, Operator("ADD", "+"), One>> }

AssignValues ==
  { <<One>>, <<Identifier("b"), ASSIGN_Tok, One>>, <<One, Operator("ADD", "+"), One>> }

\* a line ends with a NEWLINE token, the last line of a file need not
LineEnds == { <<NLINE_Tok>>, <<>> }

AssignProgram(target, value, end) ==
  target \o <<ASSIGN_Tok>> \o value \o end \o <<EOF_Tok>>

AssignPrograms ==
  { AssignProgram(t, v, e) : t \in AssignTargets, v \in AssignValues, e \in LineEnds }

\* one-line statements: declarations with and without initializer,
\* expression statements
DeclarationLines ==
  { <<AtKeyword("SET"), Identifier("x"), ASSIGN_Tok, One, NLINE_Tok>>,
    <<AtKeyword("SET"), Identifier("x"), NLINE_Tok>>,
    <<Identifier("x"), NLINE_Tok>>,
    <<One, Operator("ADD", "+"), One, NLINE_Tok>> }

RECURSIVE Flatten(_)
Flatten(lines) ==
  IF lines = <<>> THEN <<>> ELSE Head(lines) \o Flatten(Tail(lines))

LineProgram(lines) == Flatten(lines) \o <<EOF_Tok>>

LinePrograms ==
  { LineProgram(ls) : ls \in UNION { [1..m -> DeclarationLines] : m \in 1..MaxLines } }

\* the clauses of an IF chain: a condition and the statements of the branch
ClauseConditions == { One, BareKeyword("TRUE") }
ClauseBodies == { <<>>, <<One, NLINE_Tok>> }
Clauses == [condition : ClauseConditions, body : ClauseBodies]
\* the ELSE part: none, or the statements of the ELSE block
NoElse == <<"none">>
ElseParts == { NoElse } \cup { <<"else", b>> : b \in ClauseBodies }

RECURSIVE ElifTokens(_)
ElifTokens(clauses) ==
  IF clauses = <<>> THEN <<>>
  ELSE <<AtKeyword("ELIF"), Head(clauses).condition, NLINE_Tok>>
         \o Head(clauses).body \o ElifTokens(Tail(clauses))

\* `IF c NL body (ELIF c NL body)* (ELSE NL body)? END` and what follows it
IfProgram(clauses, elsePart, after) ==
  <<AtKeyword("IF"), Head(clauses).condition, NLINE_Tok>> \o Head(clauses).body
    \o ElifTokens(Tail(clauses))
    \o (IF elsePart = NoElse THEN <<>>
        ELSE <<AtKeyword("ELSE"), NLINE_Tok>> \o elsePart[2])
    \o <<AtKeyword("END")>> \o after \o <<EOF_Tok>>

ClauseLists == UNION { [1..m -> Clauses] : m \in 1..(MaxElif + 1) }

IfPrograms ==
  { IfProgram(cs, e, a) : cs \in ClauseLists, e \in ElseParts, a \in ClauseBodies }

\* expression statements over three numbers: two binary operators, a
\* prefix operator on either operand of one, a group on either side
Two == Number("2", 2)
Three == Number("3", 3)
LPAREN_Tok == Operator("LPAREN", "(")
RPAREN_Tok == Operator("RPAREN", ")")
PrefixOperators == { Operator("NEGATE", "!"), Operator("SUBTRACT", "-") }

ChainProgram(op1, op2) == <<One, op1, Two, op2, Three, NLINE_Tok, EOF_Tok>>
PrefixLeftProgram(u, op) == <<u, One, op, Two, NLINE_Tok, EOF_Tok>>
PrefixRightProgram(u, op) == <<One, op, u, Two, NLINE_Tok, EOF_Tok>>
GroupLeftProgram(op1, op2) ==
  <<LPAREN_Tok, One, op1, Two, RPAREN_Tok, op2, Three, NLINE_Tok, EOF_Tok>>
GroupRightProgram(op1, op2) ==
  <<One, op1, LPAREN_Tok, Two, op2, Three, RPAREN_Tok, NLINE_Tok, EOF_Tok>>

PrecedencePrograms ==
  { ChainProgram(op1, op2) : op1 \in BinaryOperators, op2 \in BinaryOperators }
    \cup { PrefixLeftProgram(u, op) : u \in PrefixOperators, op \in BinaryOperators }
    \cup { PrefixRightProgram(u, op) : u \in PrefixOperators, op \in BinaryOperators }
    \cup { GroupLeftProgram(op1, op2) : op1 \in BinaryOperators, op2 \in BinaryOperators }
    \cup { GroupRightProgram(op1, op2) : op1 \in BinaryOperators, op2 \in BinaryOperators }

\* well-formed programs with a NEWLINE that ends no expression statement:
\* after the END of an IF, after a SET in an IF body, on a blank line
EndNewlineProgram ==
  <<AtKeyword("IF"), One, NLINE_Tok, AtKeyword("END"), NLINE_Tok, EOF_Tok>>
SetInBodyProgram ==
  <<AtKeyword("IF"), One, NLINE_Tok,
    AtKeyword("SET"), Identifier("x"), ASSIGN_Tok, One, NLINE_Tok,
    AtKeyword("END"), EOF_Tok>>
BlankLineProgram == <<One, NLINE_Tok, NLINE_Tok, One, NLINE_Tok, EOF_Tok>>
NewlinePrograms == { EndNewlineProgram, SetInBodyProgram, BlankLineProgram }

GrammarPrograms ==
  AssignPrograms \cup LinePrograms \cup IfPrograms \cup PrecedencePrograms
    \cup NewlinePrograms

InitGrammar ==
  /\ Tokens \in GrammarPrograms
  /\ ParserFresh
  /\ InterpOff
  /\ ScannerOff

SpecGrammar == InitGrammar /\ [][NextParse]_vars

(***************************************************************************)
(* Parse called again on the Parser value of a call that has returned      *)
(***************************************************************************)
\* the entry of Parse: p.Tokens = tokens and two fresh local slices; the
\* field `current` is not assigned
Parse_Again(tokens) ==
  /\ ppc = "done"
  /\ Tokens' = tokens
  /\ statements' = <<>>
  /\ parseErrors' = <<>>
  /\ declLog' = <<>>
  /\ syncLog' = <<>>
  /\ ppc' = "loop"
  /\ UNCHANGED <<current, parseResult>>
  /\ UNCHANGED <<interpVars, scanVars>>

\* isAtEnd reads p.Tokens[p.current] with the cursor beyond the slice: the
\* Go runtime panics with index out of range
Parse_IndexPanic ==
  /\ ppc = "loop"
  /\ ~InRange(Tokens, current)
  /\ ppc' = "crashed"
  /\ UNCHANGED <<Tokens, current, statements, parseErrors, parseResult,
                 declLog, syncLog>>
  /\ UNCHANGED <<interpVars, scanVars>>

InitReparse ==
  /\ Tokens \in LinePrograms
  /\ ParserFresh
  /\ InterpOff
  /\ ScannerOff

NextReparse ==
  \/ InRange(Tokens, current) /\ Parse_Declaration
  \/ InRange(Tokens, current) /\ Parse_Return
  \/ Parse_IndexPanic
  \/ \E tokens \in LinePrograms : Parse_Again(tokens)

SpecReparse == InitReparse /\ [][NextReparse]_vars

(***************************************************************************)
(* Properties of the parser                                                *)
(***************************************************************************)
RECURSIVE CountFailed(_)
CountFailed(log) ==
  IF log = <<>> THEN 0
  ELSE (IF Head(log).ok THEN 0 ELSE 1) + CountFailed(Tail(log))

RECURSIVE NodesOf(_)
NodesOf(log) ==
  IF log = <<>> THEN <<>>
  ELSE (IF Head(log).ok THEN <<Head(log).node>> ELSE <<>>) \o NodesOf(Tail(log))

\* a program of one-line expression statements: no keyword or raw-line
\* token, no blank line, and every line closed by a NEWLINE token
ExpressionLinesOnly(toks) ==
  /\ Len(toks) > 1
  /\ toks[Len(toks) - 1].type = "NLINE"
  /\ toks[1].type # "NLINE"
  /\ \A i \in 1..(Len(toks) - 1) :
       /\ toks[i].type \notin KeywordTypes \cup {"DLINE"}
       /\ (toks[i].type = "NLINE" /\ i > 1) => toks[i - 1].type # "NLINE"

\* index (zero-based) of the NEWLINE token that closes the line starting at c
RECURSIVE LineEnd(_, _)
LineEnd(toks, c) ==
  IF getCurrentToken(toks, c).type = "NLINE" THEN c ELSE LineEnd(toks, c + 1)

\* number of lines that are not `expression NEWLINE`
RECURSIVE MalformedLines(_, _)
MalformedLines(toks, c) ==
  IF isAtEnd(toks, c) THEN 0
  ELSE LET e == LineEnd(toks, c)
           line == Append(SubSeq(toks, c + 1, e + 1), EOF_Tok)
       IN (IF expressionStatement(line, 0).ok THEN 0 ELSE 1)
            + MalformedLines(toks, e + 1)

\* C1: one Parse call over k malformed statements, each closed by a NEWLINE,
\* does not crash and returns a joined error of exactly k parse errors
C1_ErrorRecoveryCount ==
  ExpressionLinesOnly(Tokens) =>
    /\ ppc # "crashed"
    /\ ppc = "done" => Len(parseResult.err) = MalformedLines(Tokens, 0)

\* a synchronization boundary at cursor c: the token just consumed is a
\* NEWLINE, or the token at the cursor is a keyword or a host-command line
SyncBoundary(toks, c) ==
  \/ getPreviousToken(toks, c).type = "NLINE"
  \/ getCurrentToken(toks, c).type \in KeywordTypes \cup {"DLINE"}

\* C2: synchronize discards the offending token and then stops at the first
\* boundary; when it returns before EOF it stands on a boundary, and it has
\* not discarded anything beyond the first boundary
C2_SynchronizeStopsAtBoundary ==
  \A k \in 1..Len(syncLog) :
    LET from == syncLog[k].from
        to == syncLog[k].to IN
    InRange(Tokens, to) =>
      /\ to > from
      /\ ~isAtEnd(Tokens, to) => SyncBoundary(Tokens, to)
      /\ \A c \in (from + 1)..(to - 1) : ~SyncBoundary(Tokens, c)

C3_WitnessClean ==
  /\ ppc = "done"
  /\ Len(parseResult.statements) > 1
  /\ parseResult.err = <<>>

(***************************************************************************)
(* Properties of the interpreter                                           *)
(***************************************************************************)
\* the step ran execute() on a statement that is not a block
Executed == Len(frames') = Len(frames) /\ frames' # frames
\* the step entered a block / left a block
Entered == Len(frames') > Len(frames)
Exited == Len(frames') < Len(frames)

IsAssignment(stmt) ==
  stmt.kind = "ExpressionStatement" /\ stmt.expression.kind = "Assignment"
IsLookup(stmt) ==
  stmt.kind = "ExpressionStatement" /\ stmt.expression.kind = "Variable"

\* the scopes of the blocks being executed, innermost first: the active map,
\* then the maps of the environments saved at each block entry
RECURSIVE SavedMaps(_)
SavedMaps(k) ==
  IF k < 2 THEN <<>> ELSE <<frames[k].previous.Map>> \o SavedMaps(k - 1)
ScopeChain == <<iEnv.Map>> \o SavedMaps(Len(frames))
Binders(name) ==
  { j \in 1..Len(ScopeChain) : name \in DOMAIN heap[ScopeChain[j]] }
Nearest(name) ==
  ScopeChain[CHOOSE j \in Binders(name) : \A k \in Binders(name) : j <= k]

UndefinedVariable(result) ==
  /\ result.out \in {"error", "panic"}
  /\ result.err.message = "undefined variable"

\* C4: a declaration inside a block binds the name in the block's own scope
\* only: the bindings of every enclosing scope keep their values, and when the
\* block has finished the active environment is the one saved at entry, with
\* the bindings it had, so the names declared in the block are gone
C4_BlockScoping ==
  [][ /\ (Executed /\ BlockDepth > 0 /\ lastStmt'.kind = "VariableDeclaration"
            /\ lastResult'.out = "value")
          => /\ lastStmt'.name.lexeme \in DOMAIN heap'[iEnv.Map]
             /\ \A j \in 2..Len(ScopeChain) :
                  heap'[ScopeChain[j]] = heap[ScopeChain[j]]
      /\ Exited
          => /\ iEnv'.Map = ScopeChain[2]
             /\ iEnv'.Map # iEnv.Map
             /\ \A j \in 2..Len(ScopeChain) :
                  heap'[ScopeChain[j]] = heap[ScopeChain[j]]
    ]_vars

\* inside a block x is 2 while the enclosing scope still binds x to 1
C4_Witness ==
  /\ BlockDepth > 0
  /\ "x" \in DOMAIN heap[iEnv.Map]
  /\ "x" \in DOMAIN heap[Top.previous.Map]
  /\ heap[iEnv.Map]["x"] = IntV(2)
  /\ heap[Top.previous.Map]["x"] = IntV(1)

\* C5: in a block, a lookup of a name the block's own scope does not bind
\* terminates with the value of the nearest enclosing scope that binds it,
\* or with the undefined-variable error when no scope binds it
C5_LookupThroughScopeChain ==
  (/\ BlockDepth > 0
   /\ IsLookup(lastStmt)
   /\ lastStmt.expression.name.lexeme \notin DOMAIN heap[iEnv.Map])
  => LET n == lastStmt.expression.name.lexeme IN
     IF Binders(n) # {}
     THEN lastResult = [out |-> "value", value |-> heap[Nearest(n)][n]]
     ELSE UndefinedVariable(lastResult)

\* C6: an assignment to a name no scope binds fails with the
\* undefined-variable error and binds nothing; an assignment to a name
\* declared in the scope succeeds, and a read of a name of the scope yields
\* the value last stored
C6_AssignmentNeedsDeclaration ==
  [][ /\ (Executed /\ IsAssignment(lastStmt'))
          => LET n == lastStmt'.expression.name.lexeme IN
             /\ Binders(n) = {}
                  => UndefinedVariable(lastResult') /\ heap' = heap
             /\ n \in DOMAIN heap[iEnv.Map]
                  => /\ lastResult'.out = "value"
                     /\ lastResult'.value = lastStmt'.expression.value.value
                     /\ heap'[iEnv.Map][n] = lastResult'.value
      /\ (Executed /\ IsLookup(lastStmt')
            /\ lastStmt'.expression.name.lexeme \in DOMAIN heap[iEnv.Map])
          => lastResult' = [out |-> "value",
                            value |-> heap[iEnv.Map][lastStmt'.expression.name.lexeme]]
    ]_vars

\* C7: an assignment in a nested scope terminates, overwrites the binding of
\* the nearest scope that binds the name, changes nothing else, and adds no
\* name to any scope
C7_AssignmentOverwritesNearest ==
  [][ (Executed /\ BlockDepth > 0 /\ IsAssignment(lastStmt'))
        => LET n == lastStmt'.expression.name.lexeme IN
           /\ \A m \in 1..Len(heap) : DOMAIN heap'[m] = DOMAIN heap[m]
           /\ Binders(n) # {}
                => /\ lastResult'.out = "value"
                   /\ heap' = [heap EXCEPT ![Nearest(n)] =
                                 MapStore(@, n, lastResult'.value)]
    ]_vars

\* C8: entering a block creates one child environment whose enclosing link
\* is the environment active at entry; leaving it, on success, on an error or
\* on an abort, makes that environment the active one again
C8_BlockEnvironment ==
  [][ /\ Entered
          => /\ Len(heap') = Len(heap) + 1
             /\ iEnv'.Map = Len(heap')
             /\ Top'.previous = iEnv
             /\ Deref(iEnv', iEnv'.Enclosing) = iEnv
      /\ Exited => iEnv' = Top.previous
    ]_vars

C10_FailuresAreReturned ==
  (ipc \in {"done", "aborted"} /\ lastResult.out \in {"error", "panic"})
    => /\ interpResult.returned
       /\ interpResult.err # <<>>

(***************************************************************************)
(* Properties of binary expressions                                        *)
(***************************************************************************)
IsBinary(stmt) ==
  stmt.kind = "ExpressionStatement" /\ stmt.expression.kind = "Binary"

\* the operand is a literal or a variable of the active scope
Known(e) ==
  \/ e.kind = "Literal"
  \/ e.kind = "Variable" /\ e.name.lexeme \in DOMAIN heap[iEnv.Map]
OperandValue(e) ==
  IF e.kind = "Literal" THEN e.value ELSE heap[iEnv.Map][e.name.lexeme]

\* a binary expression over two known operands was the last one evaluated
BinaryEvaluated ==
  /\ IsBinary(lastStmt)
  /\ Known(lastStmt.expression.left)
  /\ Known(lastStmt.expression.right)
LeftValue == OperandValue(lastStmt.expression.left)
RightValue == OperandValue(lastStmt.expression.right)
LastOp == lastStmt.expression.operator.type

IsNumber(v) == v.k \in {"int", "float64"}
IsZero(v) == (v.k = "int" /\ v.i = 0) \/ (v.k = "float64" /\ v.f = 0)
Failed(message) ==
  lastResult.out = "error" /\ lastResult.err.message = message

\* C11: a numeric left operand divided by an int or float zero is the
\* 'division by zero' runtime error, never a value
C11_DivisionByZero ==
  (/\ BinaryEvaluated
   /\ LastOp = "DIVIDE"
   /\ IsNumber(LeftValue)
   /\ IsZero(RightValue))
  => Failed("division by zero")

\* a float was divided by the int zero
C11_Witness ==
  /\ BinaryEvaluated
  /\ LastOp = "DIVIDE"
  /\ LeftValue = FloatV(1)
  /\ RightValue = IntV(0)
  /\ Failed("division by zero")

C12_Witness ==
  /\ BinaryEvaluated
  /\ LeftValue.k = "nil"
  /\ RightValue.k = "nil"
  /\ LastOp = "EQUAL"
  /\ lastResult.out = "value"

C13_NilEquality ==
  (/\ BinaryEvaluated
   /\ LastOp \in {"EQUAL", "UNEQUAL"}
   /\ LeftValue.k = "nil" \/ RightValue.k = "nil")
  => /\ lastResult.out = "value"
     /\ lastResult.value =
          BoolV((LastOp = "EQUAL") <=> (LeftValue.k = "nil" /\ RightValue.k = "nil"))

(***************************************************************************)
(* Properties of If statements                                             *)
(***************************************************************************)
\* the conditions of an IF .. ELIF .. chain, in source order
RECURSIVE ChainConditions(_)
ChainConditions(stmt) ==
  <<stmt.condition>> \o
    (IF stmt.elseBranch.kind = "If" THEN ChainConditions(stmt.elseBranch) ELSE <<>>)

RECURSIVE HasElse(_)
HasElse(stmt) ==
  IF stmt.elseBranch.kind = "If" THEN HasElse(stmt.elseBranch)
  ELSE stmt.elseBranch.kind = "Block"

\* the truthiness rule of the specification
Truthy(v) ==
  CASE v.k = "bool" -> v.b
    [] v.k = "nil" -> FALSE
    [] v.k = "int" -> v.i # 0
    [] v.k = "float64" -> v.f # 0
    [] v.k = "string" -> v.s # ""

\* the step executed an If statement
IfStep == lastStmt'.kind = "If" /\ frames' # frames

\* how many leading conditions of the chain are literals or bound variables
RECURSIVE KnownPrefix(_)
KnownPrefix(conds) ==
  IF conds = <<>> \/ ~Known(Head(conds)) THEN 0
  ELSE 1 + KnownPrefix(Tail(conds))

\* C14: an If statement executes the then-branch of the first clause whose
\* condition is truthy and no other branch; the ELSE block only when every
\* condition is falsy; with no ELSE and every condition falsy nothing is
\* executed and nothing fails.  When a branch has finished, control is past
\* the whole If statement.
C14_IfExclusive ==
  [][ /\ IfStep =>
           LET conds == ChainConditions(lastStmt')
               known == KnownPrefix(conds)
               truthy == { k \in 1..known : Truthy(OperandValue(conds[k])) }
           IN IF truthy # {}
                THEN /\ Len(frames') = Len(frames) + 1
                     /\ Top'.branch \in truthy
                     /\ \A k \in truthy : Top'.branch <= k
              ELSE IF known = Len(conds)
                THEN IF HasElse(lastStmt')
                     THEN Len(frames') = Len(frames) + 1 /\ Top'.branch = ElseBranch
                     ELSE /\ ~Entered
                          /\ lastResult' = [out |-> "value", value |-> NilV]
                          /\ ipc' = "run"
                          /\ heap' = heap
              ELSE ~Entered /\ lastResult'.out # "value"
      /\ IfStep => frames'[Len(frames)].idx = Top.idx + 1
      /\ Exited => frames' = SubSeq(frames, 1, Len(frames) - 1)
    ]_vars

\* the first condition was falsy, the ELIF condition truthy: a statement of
\* the ELIF branch has been executed
C14_Witness ==
  /\ BlockDepth > 0
  /\ "branch" \in DOMAIN Top
  /\ Top.branch = 2
  /\ Top.idx > 0
  /\ lastResult.out = "value"

\* every condition was falsy and there is no ELSE: nothing ran, no error
C14_WitnessNone ==
  /\ lastStmt.kind = "If"
  /\ ~HasElse(lastStmt)
  /\ BlockDepth = 0
  /\ ipc = "run"
  /\ lastResult = [out |-> "value", value |-> NilV]

(***************************************************************************)
(* Properties of the scanner                                               *)
(***************************************************************************)
ScanReturned == spc = "done"
Positions(c) == { i \in 1..Len(scanner.Source) : scanner.Source[i] = c }
TokensOfType(type) ==
  { k \in 1..Len(scanner.Tokens) : scanner.Tokens[k].type = type }
LastToken == scanner.Tokens[Len(scanner.Tokens)]
\* the source positions (one-based) a token's lexeme covers
Span(t) == t.col .. (t.col + Len(t.lexeme) - 1)
ErrorsReported == IF scanResult.err = NoError THEN 0 ELSE 1

\* a source made of identifiers, blanks, line feeds and single '&' only: its
\* lexical errors are exactly its '&' characters
OnlyBareAmpersands ==
  /\ \A i \in 1..Len(scanner.Source) : scanner.Source[i] \in {"&", "x", " ", LF}
  /\ \A i \in 1..(Len(scanner.Source) - 1) :
       ~(scanner.Source[i] = "&" /\ scanner.Source[i + 1] = "&")

\* C15: one ScanSource pass goes on after a lexical error: it scans the
\* whole source, ends the token list with EOF, and reports every lexical
\* error of the source (for a source whose only errors are n single '&',
\* n errors).
C15_ScanContinuesAfterError ==
  ScanReturned =>
    /\ scanner.current = RuneCount(scanner.Source)
    /\ scanner.Tokens # <<>> /\ LastToken.type = "EOF"
    /\ OnlyBareAmpersands => ErrorsReported = Cardinality(Positions("&"))

\* C16: when ScanSource has returned with the whole input consumed, the
\* token list holds exactly one EOF token, it is the last one, and its line
\* is the last line of the source.
C16_ExactlyOneEOF ==
  (ScanReturned /\ ScannerAtEnd(scanner.Source, scanner.current)) =>
    /\ Cardinality(TokensOfType("EOF")) = 1
    /\ LastToken.type = "EOF"
    /\ LastToken.line = 1 + Cardinality(Positions(LF))

\* the source has one double quote, and nothing before it can hide it (no
\* comment, no raw line, no other quote): it opens a string literal that
\* is never closed
OpensString ==
  /\ Cardinality(Positions("\"")) = 1
  /\ \A q \in Positions("\"") : \A i \in 1..(q - 1) :
       scanner.Source[i] # "#" /\ ~IsLetter(scanner.Source[i])

\* C17: the scanner's position never exceeds the number of code points;
\* for a source whose last opened quote is never closed the scan returns
\* with exactly one error, 'unterminated string literal', and without a
\* STRING token for that literal.
C17_UnterminatedString ==
  /\ scanner.current <= RuneCount(scanner.Source)
  /\ (ScanReturned /\ OpensString) =>
       /\ scanResult.err = "unterminated string literal"
       /\ TokensOfType("STRING") = {}

\* the line feeds that get no NLINE token: those inside the lexeme of a
\* STRING or DLINE token, and those after the quote of an unterminated string
QuietLineFeeds ==
  { i \in Positions(LF) :
      \/ \E k \in TokensOfType("STRING") \cup TokensOfType("DLINE") :
           i \in Span(scanner.Tokens[k])
      \/ scanResult.err = "unterminated string literal" /\ i > scanner.start }

\* C18: when the scan has returned, the NLINE tokens are, in source order,
\* exactly the line feeds outside string literals and raw lines, one token
\* for each.
C18_NewlineTokens ==
  ScanReturned =>
    /\ { scanner.Tokens[k].col : k \in TokensOfType("NLINE") }
         = Positions(LF) \ QuietLineFeeds
    /\ \A j, k \in TokensOfType("NLINE") :
         j < k => scanner.Tokens[j].col < scanner.Tokens[k].col

\* the letters and digits a lexeme starts with
RECURSIVE LeadingRun(_)
LeadingRun(lexeme) ==
  IF lexeme = <<>> \/ ~(IsLetter(Head(lexeme)) \/ IsDigit(Head(lexeme))) THEN <<>>
  ELSE <<Head(lexeme)>> \o LeadingRun(Tail(lexeme))

\* the token is a bare word: its lexeme starts with a letter
IsBareWord(t) == t.lexeme # <<>> /\ IsLetter(Head(t.lexeme))
IsHostVerb(run) == GoString(ToUpper(run)) \in DOMAIN DockerTokenKeywords

\* the last character before position i that is not a blank
RECURSIVE LastNonSpaceBefore(_, _)
LastNonSpaceBefore(lexeme, i) ==
  IF i <= 1 THEN NUL
  ELSE IF lexeme[i - 1] \in {" ", "<TAB>", "<CR>"}
  THEN LastNonSpaceBefore(lexeme, i - 1)
  ELSE lexeme[i - 1]

\* C19: a bare word that is a host-command verb, in any letter case, gives
\* one DLINE token: it runs to the end of the line without the line feed
\* that ends it, a line feed after a trailing backslash is inside it and
\* counts as a line, and the token after it is NLINE or EOF.
C19_RawLine ==
  \A k \in 1..Len(scanner.Tokens) :
    Bind(scanner.Tokens[k], LAMBDA t :
      /\ (IsBareWord(t) /\ IsHostVerb(LeadingRun(t.lexeme))) => t.type = "DLINE"
      /\ t.type = "DLINE" =>
           /\ IsHostVerb(LeadingRun(t.lexeme))
           /\ \A i \in 1..Len(t.lexeme) :
                t.lexeme[i] = LF => LastNonSpaceBefore(t.lexeme, i) = "\\"
           /\ LastNonSpaceBefore(t.lexeme, Len(t.lexeme) + 1) # "\\"
                => ReadSingleChar(scanner.Source, t.col + Len(t.lexeme) - 1)
                     \in {LF, NUL}
           /\ t.line = 1 + Cardinality({ i \in Positions(LF) :
                                          i < t.col + Len(t.lexeme) })
           /\ k < Len(scanner.Tokens) =>
                scanner.Tokens[k + 1].type \in {"NLINE", "EOF"})

\* C20: a token whose lexeme is a bare run of letters and digits is a DLINE
\* token when the run is a host-command verb, and otherwise an IDENTIFIER
\* whose literal is the run; it is never a keyword of the DSL.
C20_BareWordNeverKeyword ==
  \A k \in 1..Len(scanner.Tokens) :
    Bind(scanner.Tokens[k], LAMBDA t :
      IsBareWord(t) =>
        IF IsHostVerb(LeadingRun(t.lexeme)) THEN t.type = "DLINE"
        ELSE t.type = "IDENTIFIER" /\ t.literal = StrV(GoString(t.lexeme)))

\* the step added a token to the scanner's list
TokenAdded == Len(scanner'.Tokens) = Len(scanner.Tokens) + 1
NewToken == scanner'.Tokens[Len(scanner'.Tokens)]
\* the position (counted from 0) at which the line holding position p starts
LineStart(src, p) ==
  IF \E i \in 1..p : src[i] = LF
  THEN CHOOSE i \in 1..p : src[i] = LF /\ \A j \in (i + 1)..p : src[j] # LF
  ELSE 0

\* C21: the column of every token is one-based within its line: 1 plus the
\* number of code points between the start of the line on which the lexeme
\* begins and the lexeme's first code point (for EOF, the end of the input).
C21_ColumnWithinLine ==
  [][ TokenAdded =>
        Bind(IF NewToken.type = "EOF" THEN scanner'.current ELSE scanner'.start,
             LAMBDA first :
               NewToken.col = 1 + first - LineStart(scanner.Source, first))
    ]_vars

(***************************************************************************)
(* Properties of the statement grammar                                     *)
(***************************************************************************)
\* the first declaration() call of Parse has returned or has panicked
FirstDeclared == Len(declLog) >= 1
LiteralOne == LiteralExpression(IntV(1), One)

\* C22: `a = e NEWLINE` parses to an expression statement holding
\* Assignment(a, e), `a = b = e NEWLINE` to Assignment(a, Assignment(b, e)),
\* with no parse error.
C22_AssignmentRightAssociative ==
  /\ (FirstDeclared /\ Tokens = AssignProgram(<<Identifier("a")>>, <<One>>, <<NLINE_Tok>>))
       => /\ declLog[1].ok
          /\ declLog[1].node =
               ExpressionStatement(AssignmentExpression(Identifier("a"), LiteralOne))
          /\ parseErrors = <<>>
  /\ (FirstDeclared /\ Tokens = AssignProgram(<<Identifier("a")>>,
                                  <<Identifier("b"), ASSIGN_Tok, One>>, <<NLINE_Tok>>))
       => /\ declLog[1].ok
          /\ declLog[1].node =
               ExpressionStatement(
                 AssignmentExpression(Identifier("a"),
                   AssignmentExpression(Identifier("b"), LiteralOne)))
          /\ parseErrors = <<>>

\* the targets that are not a name: literal, grouping, unary, binary
NonVariableTargets == AssignTargets \ { <<Identifier("a")>> }

\* C23: an assignment whose left-hand side is a literal, a grouping, a unary
\* or a binary expression is rejected: the declaration fails, the error is
\* the one of assignment() and carries the `=` token of a rejected
\* assignment (the one after the target, when the value holds no assignment
\* of its own), and no Assignment node is produced.
C23_AssignmentTargetRejected ==
  \A t \in NonVariableTargets, v \in AssignValues, e \in LineEnds :
    (FirstDeclared /\ Tokens = AssignProgram(t, v, e)) =>
      /\ ~declLog[1].ok
      /\ declLog[1].node = NoNode
      /\ statements = <<>>
      /\ ~declLog[1].crash =>
           /\ parseErrors[1].message = "Unable to perform assignment on expression"
           /\ getCurrentToken(Tokens, parseErrors[1].token) = ASSIGN_Tok
           /\ (\A i \in 1..Len(v) : v[i] # ASSIGN_Tok) => parseErrors[1].token = Len(t)

\* `- 1 = 1 NEWLINE` has been rejected at its `=`
C23_Witness ==
  /\ Tokens = AssignProgram(<<Operator("SUBTRACT", "-"), One>>, <<One>>, <<NLINE_Tok>>)
  /\ ppc = "done"
  /\ parseResult.err = <<NewParseError(2, "Unable to perform assignment on expression")>>

\* the nodes the claim expects for the conditions and bodies of the programs
ExpectedCondition(tok) ==
  LiteralExpression(IF tok.type = "TRUE" THEN BoolV(TRUE) ELSE tok.literal, tok)
ExpectedBody(body) ==
  IF body = <<>> THEN <<>> ELSE <<ExpressionStatement(LiteralOne)>>

\* the right-nested chain: each ELIF is the else-branch of the If before it,
\* the ELSE block the else-branch of the last
RECURSIVE ExpectedIf(_, _)
ExpectedIf(clauses, elsePart) ==
  IfStatement(ExpectedCondition(Head(clauses).condition),
              BlockStatement(ExpectedBody(Head(clauses).body)),
              IF Len(clauses) > 1 THEN ExpectedIf(Tail(clauses), elsePart)
              ELSE IF elsePart = NoElse THEN NoNode
              ELSE BlockStatement(ExpectedBody(elsePart[2])))

LineLists == UNION { [1..m -> DeclarationLines] : m \in 1..MaxLines }
IsSetLine(line) == Head(line) = AtKeyword("SET")

\* C25: a program made only of newline-terminated SET declarations and
\* expression statements parses without error to one statement per line,
\* a VariableDeclaration for each SET line.
C25_OneStatementPerLine ==
  \A ls \in LineLists :
    (Tokens = LineProgram(ls) /\ ppc # "loop") =>
      /\ ppc = "done"
      /\ parseResult.err = <<>>
      /\ Len(parseResult.statements) = Len(ls)
      /\ \A i \in 1..Len(ls) :
           IsSetLine(ls[i]) <=> parseResult.statements[i].kind = "VariableDeclaration"

(***************************************************************************)
(* Properties of the coercion to a boolean                                 *)
(***************************************************************************)
\* the values the table names as false
FalsyValues == { BoolV(FALSE), NilV, IntV(0), FloatV(0), StrV("") }

\* C27: a boolean coerces to itself, nil to false, an integer or float to
\* false exactly when it is zero, a string to false exactly when it is
\* empty, and any other value to true.
C27_TruthinessTable ==
  (lastStmt.kind = "Literal" /\ lastResult.out = "value") =>
    /\ lastResult.value = BoolV(lastStmt.value \notin FalsyValues)
    /\ lastStmt.value.k = "bool" => lastResult.value = lastStmt.value

\* the empty string has been coerced, to false
C27_Witness ==
  /\ lastStmt = Lit(StrV(""))
  /\ lastResult = [out |-> "value", value |-> BoolV(FALSE)]
\* a value of another type has been coerced, to true
C27_WitnessOther ==
  /\ lastStmt = Lit(OtherV)
  /\ lastResult = [out |-> "value", value |-> BoolV(TRUE)]

(***************************************************************************)
(* Properties of the parser's cursor and of its recovery                   *)
(***************************************************************************)
\* C28: throughout Parse on tokens ending with one EOF the cursor stays
\* within 0..index(EOF), and no primitive indexes outside the token slice
\* (an index out of range is a panic of the Go runtime).
C28_CursorInRange ==
  /\ ppc # "crashed"
  /\ InRange(Tokens, current)
  /\ \A k \in 1..Len(syncLog) : InRange(Tokens, syncLog[k].to)

\* C29: the failure of one declaration is resynchronized once, by the
\* nearest enclosing declaration call; the calls further out discard no
\* more tokens for it.
C29_ResynchronizedOnce ==
  Len(syncLog) <= 1

(***************************************************************************)
(* Properties of the scope chain                                           *)
(***************************************************************************)
\* following the enclosing link from env reaches the root (enclosing = nil)
\* after exactly `steps` steps
RECURSIVE ReachesRoot(_, _)
ReachesRoot(env, steps) ==
  IF env.Enclosing = NilPtr THEN steps = 0
  ELSE steps > 0 /\ ReachesRoot(Deref(iEnv, env.Enclosing), steps - 1)

\* C30: the scope chain is acyclic and finite: from the active environment
\* the enclosing links reach the root after as many steps as there are
\* blocks executing, and no environment is its own enclosing scope.
C30_ScopeChainAcyclic ==
  ipc # "off" =>
    /\ ReachesRoot(iEnv, BlockDepth)
    /\ iEnv.Enclosing # NilPtr => Deref(iEnv, iEnv.Enclosing) # iEnv

(***************************************************************************)
(* Properties of equality and of the unary operators                       *)
(***************************************************************************)
\* C31: == and != applied to any two values of the kinds int, float, string,
\* bool and nil return a boolean, never a runtime error.
C31_EqualityAcrossTypes ==
  (BinaryEvaluated /\ LastOp \in {"EQUAL", "UNEQUAL"}) =>
    /\ lastResult.out = "value"
    /\ lastResult.value.k = "bool"

(***************************************************************************)
(* Properties of primary expressions                                       *)
(***************************************************************************)
\* C32: an IDENTIFIER token in primary position parses to the Variable
\* expression holding that token, not to a Literal of the identifier's text.
C32_IdentifierIsVariable ==
  (/\ FirstDeclared
   /\ Len(Tokens) >= 3
   /\ Tokens[1].type = "IDENTIFIER"
   /\ Tokens[2].type = "NLINE")
  => /\ declLog[1].ok
     /\ declLog[1].node = ExpressionStatement(VariableExpression(Tokens[1]))

(***************************************************************************)
(* Properties of declarations                                              *)
(***************************************************************************)
\* the bindings of map m other than that of name n are what they were
OthersUnchanged(m, n) ==
  /\ DOMAIN heap'[m] \ {n} = DOMAIN heap[m] \ {n}
  /\ \A k \in DOMAIN heap[m] \ {n} : heap'[m][k] = heap[m][k]

C33_WitnessFailed ==
  /\ lastStmt = VariableDeclarationStatement(Identifier("z"), DivideByZero)
  /\ lastResult.out = "error"
  /\ DOMAIN heap[iEnv.Map] = {"x"}

(***************************************************************************)
(* Properties of unary expressions                                         *)
(***************************************************************************)
IsUnary(stmt) ==
  stmt.kind = "ExpressionStatement" /\ stmt.expression.kind = "Unary"

\* the table's "runtime error"
UnaryError == [k |-> "error"]

\* what the claim's table gives for operator op on value v
UnaryTable(op, v) ==
  IF op = "NEGATE"
    THEN IF v.k = "bool" THEN BoolV(v.b = FALSE) ELSE UnaryError
  ELSE IF v.k = "int" THEN IntV(0 - v.i)
  ELSE IF v.k = "float64" THEN FloatV(0 - v.f)
  ELSE UnaryError

\* the outcome the table gives for a unary expression over known operands:
\* a value or a runtime error, which is also what a failed operand gives
RECURSIVE UnaryExpected(_)
UnaryExpected(e) ==
  IF e.kind = "Unary"
    THEN IF UnaryExpected(e.right) = UnaryError THEN UnaryError
         ELSE UnaryTable(e.operator.type, UnaryExpected(e.right))
  ELSE IF e = DivideByZero THEN UnaryError
  ELSE OperandValue(e)

RECURSIVE AllKnown(_)
AllKnown(e) ==
  IF e.kind = "Unary" THEN AllKnown(e.right)
  ELSE e = DivideByZero \/ Known(e)

\* C34: `!` negates a boolean and is a runtime error on any other value,
\* `-` negates an int or float and is a runtime error on any other value,
\* and an operand that fails propagates its failure, the operator unapplied.
C34_UnaryOperandKinds ==
  (IsUnary(lastStmt) /\ AllKnown(lastStmt.expression)) =>
    /\ IF UnaryExpected(lastStmt.expression) = UnaryError
       THEN lastResult.out = "error"
       ELSE lastResult = [out |-> "value",
                          value |-> UnaryExpected(lastStmt.expression)]
    /\ lastStmt.expression.right = DivideByZero => Failed("division by zero")

\* `!` was applied to nil: a runtime error
C34_Witness ==
  /\ lastStmt = ExpressionStatement(UnaryExpression(Operator("NEGATE", "!"), Var("n")))
  /\ "n" \in DOMAIN heap[iEnv.Map]
  /\ Failed("negate operation requires boolean")
\* `-` was applied to a float: its negation
C34_WitnessNegated ==
  /\ lastStmt = ExpressionStatement(UnaryExpression(Operator("SUBTRACT", "-"),
                                                    Lit(FloatV(3))))
  /\ lastResult = [out |-> "value", value |-> FloatV(-3)]

(***************************************************************************)
(* Properties of binary expression parsing                                 *)
(***************************************************************************)
\* the precedence tier of a binary operator, low to high
Tier(op) ==
  CASE op.type \in {"EQUAL", "UNEQUAL"} -> 1
    [] op.type \in {"GREATER", "GTE", "LESS", "LTE"} -> 2
    [] op.type \in {"ADD", "SUBTRACT"} -> 3
    [] op.type \in {"MULTI", "DIVIDE"} -> 4

NumberLiteral(tok) == LiteralExpression(tok.literal, tok)

\* `a op1 b op2 c`: the operator of the higher tier binds first, operators
\* of the same tier from the left
ExpectedChain(a, op1, b, op2, c) ==
  IF Tier(op2) > Tier(op1)
    THEN BinaryExpression(a, op1, BinaryExpression(b, op2, c))
  ELSE BinaryExpression(BinaryExpression(a, op1, b), op2, c)

ParsedTo(expr) ==
  /\ declLog[1].ok
  /\ declLog[1].node = ExpressionStatement(expr)
  /\ parseErrors = <<>>

\* C35: binary operators of one tier associate to the left, an operator of
\* a higher tier binds tighter, a prefix operator binds tighter than any
\* binary operator, and a parenthesized group is a single primary.
C35_PrecedenceAndAssociativity ==
  FirstDeclared =>
    /\ \A op1, op2 \in BinaryOperators :
         /\ Tokens = ChainProgram(op1, op2) =>
              ParsedTo(ExpectedChain(NumberLiteral(One), op1, NumberLiteral(Two),
                                     op2, NumberLiteral(Three)))
         /\ Tokens = GroupLeftProgram(op1, op2) =>
              ParsedTo(BinaryExpression(
                         GroupingExpression(
                           BinaryExpression(NumberLiteral(One), op1, NumberLiteral(Two))),
                         op2, NumberLiteral(Three)))
         /\ Tokens = GroupRightProgram(op1, op2) =>
              ParsedTo(BinaryExpression(
                         NumberLiteral(One), op1,
                         GroupingExpression(
                           BinaryExpression(NumberLiteral(Two), op2, NumberLiteral(Three)))))
    /\ \A u \in PrefixOperators, op \in BinaryOperators :
         /\ Tokens = PrefixLeftProgram(u, op) =>
              ParsedTo(BinaryExpression(UnaryExpression(u, NumberLiteral(One)),
                                        op, NumberLiteral(Two)))
         /\ Tokens = PrefixRightProgram(u, op) =>
              ParsedTo(BinaryExpression(NumberLiteral(One), op,
                                        UnaryExpression(u, NumberLiteral(Two))))

\* `1 + 2 * 3` has been parsed: the product is the right operand of the sum
C35_Witness ==
  /\ Tokens = ChainProgram(Operator("ADD", "+"), Operator("MULTI", "*"))
  /\ ppc = "done"
  /\ parseResult.err = <<>>
  /\ Len(parseResult.statements) = 1
  /\ parseResult.statements[1].expression.operator.type = "ADD"
  /\ parseResult.statements[1].expression.right.kind = "Binary"
\* `1 - 2 - 3` has been parsed: the first difference is the left operand
C35_WitnessLeft ==
  /\ Tokens = ChainProgram(Operator("SUBTRACT", "-"), Operator("SUBTRACT", "-"))
  /\ ppc = "done"
  /\ Len(parseResult.statements) = 1
  /\ parseResult.statements[1].expression.left.kind = "Binary"

(***************************************************************************)
(* Properties of the scanner's line numbers and of its reading of text     *)
(***************************************************************************)
\* the number of line feeds among the first p code points of src
LineFeedsBefore(src, p) == Cardinality({ i \in 1..p : src[i] = LF })

\* C36: the line of every token is the one-based line on which its lexeme
\* begins: the NEWLINE that ends line n carries n, a string spanning several
\* lines the line of its opening quote.
C36_LineOfFirstCodePoint ==
  [][ TokenAdded =>
        Bind(IF NewToken.type = "EOF" THEN scanner'.current ELSE scanner'.start,
             LAMBDA first :
               NewToken.line = 1 + LineFeedsBefore(scanner.Source, first))
    ]_vars

\* the code points of the lexeme of the token just added
NewCodePoints == SubSeq(scanner.Source, scanner'.start + 1, scanner'.current)

\* the number a run of code points spells
Spelled(text) ==
  IF \E i \in 1..Len(text) : text[i] = "." THEN FloatV(ParseFloat(text))
  ELSE IntV(Atoi(text))

\* C37: scanning reads code points, not bytes: the literal of a NUMBER token
\* is the number spelled by the code points of its lexeme, and the text of
\* an identifier is the code points of its lexeme, from the first one on.
C37_CodePointsNotBytes ==
  [][ /\ (TokenAdded /\ NewToken.type = "NUMBER")
          => NewToken.literal = Spelled(NewCodePoints)
      /\ (TokenAdded /\ NewToken.type = "IDENTIFIER")
          => NewToken.literal = StrV(GoString(NewCodePoints))
    ]_vars

(***************************************************************************)
(* Properties of NEWLINE tokens in the grammar                             *)
(***************************************************************************)
ParsedCleanly(n) ==
  /\ ppc = "done"
  /\ parseResult.err = <<>>
  /\ Len(parseResult.statements) = n

\* C38: a NEWLINE after the END of an IF, after a SET declaration inside an
\* IF body, or alone on a blank line causes no parse error, and the program
\* parses to one statement per source statement.
C38_NewlinesAreHarmless ==
  ppc # "loop" =>
    /\ Tokens = EndNewlineProgram => ParsedCleanly(1)
    /\ Tokens = SetInBodyProgram => ParsedCleanly(1)
    /\ Tokens = BlankLineProgram => ParsedCleanly(2)

(***************************************************************************)
(* Properties of repeated calls of Parse                                   *)
(***************************************************************************)
\* a call of Parse has begun and has parsed no declaration yet
ParseEntered == ppc = "loop" /\ declLog = <<>>

\* C39: Parse depends only on the tokens it is given: every call, also one
\* on a Parser value a previous call has used, starts reading at the first
\* token, and its first declaration begins there.
C39_ParseStartsAtFirstToken ==
  /\ ParseEntered => current = 0
  /\ declLog # <<>> => declLog[1].from = 0

====
